---------------------------- MODULE Spec2Model ----------------------------
(***************************************************************************)
(* toolscript: the plan interpreter (executeToolScript), the static        *)
(* analysis of a parsed plan (Parser.parseScript's collect) and the facade *)
(* (prepareToolScript), as a state machine.                                *)
(*                                                                         *)
(* A plan is analysed once (Prepare), then executed twice in sequence with *)
(* the same capabilities: execution 1 with the default step budget and no  *)
(* deadline, execution 2 with options drawn from bounded sets.  Execution  *)
(* 1 is what execution 2 is compared with.                                 *)
(***************************************************************************)
EXTENDS Integers, Sequences, FiniteSets, TLC

(***************************************************************************)
(* JSON-like run-time values.  Every value is a record of the same shape   *)
(* so that any two values can be compared; t is the JavaScript type.       *)
(* "undefined" is a value of its own: an out-of-range index produces it    *)
(* and `ret !== undefined` tests for it.                                   *)
(***************************************************************************)
MkValue(t, b, n, s, a, ks) == [t |-> t, b |-> b, n |-> n, s |-> s, a |-> a, ks |-> ks]
Undefined == MkValue("undefined", FALSE, 0, "", <<>>, <<>>)
Null      == MkValue("null", FALSE, 0, "", <<>>, <<>>)
Bool(b)   == MkValue("boolean", b, 0, "", <<>>, <<>>)
Num(n)    == MkValue("number", FALSE, n, "", <<>>, <<>>)
Str(s)    == MkValue("string", FALSE, 0, s, <<>>, <<>>)
Arr(a)    == MkValue("array", FALSE, 0, "", a, <<>>)
\* An object: keys ks, in insertion order, and their values a.
Obj(ks, a) == MkValue("object", FALSE, 0, "", a, ks)
\* A function object, such as the ones every plain object inherits.
Fn(s)     == MkValue("function", FALSE, 0, s, <<>>, <<>>)
\* Not a value: the outcome of an expression whose evaluation throws.
Thrown(s) == MkValue("throw", FALSE, 0, s, <<>>, <<>>)

IsThrown(v) == v.t = "throw"
IsNullish(v) == v.t \in {"null", "undefined"}

\* obj[key] = val on an object value: the last write wins, the key keeps its
\* first position.
ObjSet(o, key, val) ==
    IF \E i \in 1..Len(o.ks) : o.ks[i] = key
    THEN Obj(o.ks, [i \in 1..Len(o.ks) |-> IF o.ks[i] = key THEN val ELSE o.a[i]])
    ELSE Obj(Append(o.ks, key), Append(o.a, val))

(***************************************************************************)
(* Every plain object ({} literals: vars, and a caller's capability map)   *)
(* inherits the properties of Object.prototype; a keyed read obj[name]     *)
(* finds them when obj has no own property of that name.                   *)
(***************************************************************************)
ObjectPrototype == {"toString", "constructor"}

\* Object.prototype.hasOwnProperty.call(env, name)
HasOwn(env, name) == name \in DOMAIN env
\* env[name]
Get(env, name) ==
    IF name \in DOMAIN env THEN env[name]
    ELSE IF name \in ObjectPrototype THEN Fn(name)
    ELSE Undefined
\* env[name] = val
Bind(env, name, val) ==
    [k \in (DOMAIN env) \cup {name} |-> IF k = name THEN val ELSE env[k]]
\* delete env[name]
Delete(env, name) == [k \in (DOMAIN env) \ {name} |-> env[k]]

(***************************************************************************)
(* Value expressions (parser.ts: Value | VarRef), records of one shape.    *)
(***************************************************************************)
MkExpr(kind, n, b, s, items, keys, path) ==
    [kind |-> kind, n |-> n, b |-> b, s |-> s, items |-> items, keys |-> keys,
     path |-> path]
ENumber(n) == MkExpr("Number", n, FALSE, "", <<>>, <<>>, <<>>)
EBool(b)   == MkExpr("Bool", 0, b, "", <<>>, <<>>, <<>>)
ENull      == MkExpr("Null", 0, FALSE, "", <<>>, <<>>, <<>>)
EString(s) == MkExpr("String", 0, FALSE, s, <<>>, <<>>, <<>>)
EBare(s)   == MkExpr("Bare", 0, FALSE, s, <<>>, <<>>, <<>>)
EArray(items) == MkExpr("Array", 0, FALSE, "", items, <<>>, <<>>)
EMap(keys, items) == MkExpr("Map", 0, FALSE, "", items, keys, <<>>)
\* $name[i1][i2]...: path[0] is s, the index steps are path.
EVar(s, path) == MkExpr("Var", 0, FALSE, s, <<>>, <<>>, path)

\* Number(text) of a bare word: the words of the model that are numerals,
\* every other word is NaN.
NumericText == {"+5"}
NumberOf(text) == IF text = "+5" THEN 5 ELSE 0

\* cur[k] for an integer k: an element of an array, undefined past its end
\* and on every other non-null value of the model; a TypeError on null and
\* on undefined.
Index(cur, k) ==
    IF IsNullish(cur) THEN Thrown("TypeError: Cannot read properties")
    ELSE IF cur.t = "array" /\ k >= 0 /\ k < Len(cur.a) THEN cur.a[k + 1]
    ELSE Undefined

RECURSIVE IndexPath(_, _)
IndexPath(cur, path) ==
    IF path = <<>> \/ IsThrown(cur) THEN cur
    ELSE IndexPath(Index(cur, Head(path)), Tail(path))

\* The repository holds executeToolScript twice: src/toolscript/interpreter.ts,
\* which main.ts imports, and src/unnamed/part_001.  They differ in the Bare
\* case of resolveValue and in the For case of runBlock, which only part_001
\* has.
VARIABLE interpreter
Interpreters == {"interpreter.ts", "part_001"}

RECURSIVE ResolveValue(_, _)
RECURSIVE ResolveItems(_, _)
RECURSIVE ResolveEntries(_, _, _, _)

\* resolveValue
ResolveValue(env, v) ==
    CASE v.kind = "Number" -> Num(v.n)
      [] v.kind = "Bool"   -> Bool(v.b)
      [] v.kind = "Null"   -> Null
      [] v.kind = "String" -> Str(v.s)
      [] v.kind = "Bare"   ->
            IF interpreter = "part_001" /\ HasOwn(env, v.s) THEN env[v.s]
            ELSE IF v.s = "true" THEN Bool(TRUE)
            ELSE IF v.s = "false" THEN Bool(FALSE)
            ELSE IF v.s = "null" THEN Null
            ELSE IF v.s \in NumericText THEN Num(NumberOf(v.s))
            ELSE Str(v.s)
      [] v.kind = "Array"  -> ResolveItems(env, v.items)
      [] v.kind = "Map"    -> ResolveEntries(env, v.keys, v.items, Obj(<<>>, <<>>))
      [] OTHER ->
            LET cur == Get(env, v.s)
            IN  IF IsNullish(cur) THEN Null ELSE IndexPath(cur, v.path)

\* v.items.map(resolveValue); a throwing item throws.
ResolveItems(env, items) ==
    LET vals == [i \in 1..Len(items) |-> ResolveValue(env, items[i])]
    IN  IF \E i \in 1..Len(items) : IsThrown(vals[i])
        THEN vals[CHOOSE i \in 1..Len(items) :
                    IsThrown(vals[i]) /\ \A j \in 1..(i - 1) : ~IsThrown(vals[j])]
        ELSE Arr(vals)

\* for (const e of entries) obj[e.key] = resolveValue(e.value)
ResolveEntries(env, keys, items, acc) ==
    IF keys = <<>> THEN acc
    ELSE LET val == ResolveValue(env, Head(items))
         IN  IF IsThrown(val) THEN val
             ELSE ResolveEntries(env, Tail(keys), Tail(items),
                                 ObjSet(acc, Head(keys), val))

(***************************************************************************)
(* Conditions (parser.ts: Cond).  sub holds the operands of Not/And/Or.    *)
(***************************************************************************)
MkCond(kind, op, left, right, sub) ==
    [kind |-> kind, op |-> op, left |-> left, right |-> right, sub |-> sub]
Cmp(op, left, right) == MkCond("Cmp", op, left, right, <<>>)
Not(inner) == MkCond("Not", "", ENull, ENull, <<inner>>)
And(l, r)  == MkCond("And", "", ENull, ENull, <<l, r>>)
Or(l, r)   == MkCond("Or", "", ENull, ENull, <<l, r>>)

IsPrimitive(v) == v.t \in {"undefined", "null", "boolean", "number", "string"}
\* l === r.  Arrays, objects and functions compare by reference; the plans
\* of the model compare primitive values only.
StrictEq(l, r) == IsPrimitive(l) /\ IsPrimitive(r) /\ l = r
\* l < r on numbers and booleans (true is 1, false is 0); undefined is NaN
\* and compares false.  The plans of the model order numbers only.
IsNumeric(v) == v.t \in {"number", "boolean"}
ToNumber(v) == IF v.t = "boolean" THEN (IF v.b THEN 1 ELSE 0) ELSE v.n
Less(l, r) == IsNumeric(l) /\ IsNumeric(r) /\ ToNumber(l) < ToNumber(r)
LessEq(l, r) == IsNumeric(l) /\ IsNumeric(r) /\ ToNumber(l) <= ToNumber(r)

RECURSIVE EvalCond(_, _)
\* evalCond; "throw" when resolving an operand throws.
EvalCond(env, c) ==
    CASE c.kind = "Not" ->
            LET x == EvalCond(env, c.sub[1])
            IN  IF x = "throw" THEN x ELSE IF x = "true" THEN "false" ELSE "true"
      [] c.kind = "And" ->
            LET x == EvalCond(env, c.sub[1])
            IN  IF x = "true" THEN EvalCond(env, c.sub[2]) ELSE x
      [] c.kind = "Or" ->
            LET x == EvalCond(env, c.sub[1])
            IN  IF x = "false" THEN EvalCond(env, c.sub[2]) ELSE x
      [] OTHER ->
            LET l == ResolveValue(env, c.left)
                r == ResolveValue(env, c.right)
                ok == IF l.t = "null" \/ r.t = "null" THEN StrictEq(l, r)
                      ELSE CASE c.op = "==" -> StrictEq(l, r)
                             [] c.op = "!=" -> ~StrictEq(l, r)
                             [] c.op = "<"  -> Less(l, r)
                             [] c.op = "<=" -> LessEq(l, r)
                             [] c.op = ">"  -> Less(r, l)
                             [] OTHER       -> LessEq(r, l)
            IN  IF IsThrown(l) \/ IsThrown(r) THEN "throw"
                ELSE IF ok THEN "true" ELSE "false"

(***************************************************************************)
(* Statements and plans (parser.ts: Stmt, FunctionCall, PlanNode), records *)
(* of one shape.  A block is the sequence of its statements.  capture ""   *)
(* is an absent capture, hasElse = FALSE an absent else.                   *)
(***************************************************************************)
Loc(line, col) == [line |-> line, col |-> col]
MkCall(name, keys, args, capture, loc) ==
    [name |-> name, keys |-> keys, args |-> args, capture |-> capture, loc |-> loc]
NoCall == MkCall("", <<>>, <<>>, "", Loc(0, 0))
NoCond == MkCond("None", "", ENull, ENull, <<>>)
MkStmt(kind, name, expr, call, cond, then, else, hasElse, item, body) ==
    [kind |-> kind, name |-> name, expr |-> expr, call |-> call, cond |-> cond,
     then |-> then, else |-> else, hasElse |-> hasElse, item |-> item,
     body |-> body]
Let(name, expr) == MkStmt("Let", name, expr, NoCall, NoCond, <<>>, <<>>, FALSE, "", <<>>)
Call(name, keys, args, capture, loc) ==
    MkStmt("Call", "", ENull, MkCall(name, keys, args, capture, loc), NoCond,
           <<>>, <<>>, FALSE, "", <<>>)
If(cond, then) == MkStmt("If", "", ENull, NoCall, cond, then, <<>>, FALSE, "", <<>>)
IfElse(cond, then, else) ==
    MkStmt("If", "", ENull, NoCall, cond, then, else, TRUE, "", <<>>)
\* expr is the iterable.
For(item, iterable, body) ==
    MkStmt("For", "", iterable, NoCall, NoCond, <<>>, <<>>, FALSE, item, body)
Return(expr) == MkStmt("Return", "", expr, NoCall, NoCond, <<>>, <<>>, FALSE, "", <<>>)
Empty == MkStmt("Empty", "", ENull, NoCall, NoCond, <<>>, <<>>, FALSE, "", <<>>)

(***************************************************************************)
(* The plans of the model, as the parser builds them from the script in    *)
(* the comment (a Call's loc is the place of its CALL keyword).            *)
(***************************************************************************)
\* 1 CALL fetch_order id=42 -> status
\* 2 IF $status == "pending": {
\* 3   CALL update_order id=42 amount=33 -> updated
\* 4   RETURN $updated
\* 5 }
\* 6 RETURN $status
PlanOrder ==
    << Call("fetch_order", <<"id">>, <<ENumber(42)>>, "status", Loc(1, 1)),
       If(Cmp("==", EVar("status", <<>>), EString("pending")),
          << Call("update_order", <<"id", "amount">>, <<ENumber(42), ENumber(33)>>,
                  "updated", Loc(3, 3)),
             Return(EVar("updated", <<>>)) >>),
       Return(EVar("status", <<>>)) >>

\* 1 CALL listNumbers -> nums
\* 2 FOR num IN $nums: {
\* 3   CALL accumulate value=$num -> latest
\* 4 }
\* 5 RETURN $latest
PlanLoop ==
    << Call("listNumbers", <<>>, <<>>, "nums", Loc(1, 1)),
       For("num", EVar("nums", <<>>),
           << Call("accumulate", <<"value">>, <<EVar("num", <<>>)>>, "latest",
                   Loc(3, 3)) >>),
       Return(EVar("latest", <<>>)) >>

\*  1 LET nums = [1, 2, 3]
\*  2 LET num = 9
\*  3 FOR num IN $nums: {
\*  4   IF $num == 2: {
\*  5     RETURN $num
\*  6   } ELSE: {
\*  7     CALL accumulate value=$num -> latest
\*  8   }
\*  9   CALL accumulate value=0 -> num
\* 10 }
\* 11 CALL update_order -> after
\* 12 RETURN 0
PlanEarlyReturn ==
    << Let("nums", EArray(<<ENumber(1), ENumber(2), ENumber(3)>>)),
       Let("num", ENumber(9)),
       For("num", EVar("nums", <<>>),
           << IfElse(Cmp("==", EVar("num", <<>>), ENumber(2)),
                     << Return(EVar("num", <<>>)) >>,
                     << Call("accumulate", <<"value">>, <<EVar("num", <<>>)>>,
                             "latest", Loc(7, 5)) >>),
              Call("accumulate", <<"value">>, <<ENumber(0)>>, "num", Loc(9, 3)) >>),
       Call("update_order", <<>>, <<>>, "after", Loc(11, 1)),
       Return(ENumber(0)) >>

\* 1 LET nums = [1]
\* 2 IF $nums[0] == 1: {
\* 3   RETURN $nums[3]
\* 4 }
\* 5 CALL update_order id=1 -> updated
\* 6 RETURN 7
PlanReturnElement ==
    << Let("nums", EArray(<<ENumber(1)>>)),
       If(Cmp("==", EVar("nums", <<0>>), ENumber(1)),
          << Return(EVar("nums", <<3>>)) >>),
       Call("update_order", <<"id">>, <<ENumber(1)>>, "updated", Loc(5, 1)),
       Return(ENumber(7)) >>

\* 1 LET x = 5
\* 2 FOR x IN [1, 2]: {
\* 3   FOR x IN [3]: {
\* 4     LET x = 4
\* 5   }
\* 6   CALL accumulate value=$x -> x
\* 7 }
\* 8 RETURN x
PlanShadow ==
    << Let("x", ENumber(5)),
       For("x", EArray(<<ENumber(1), ENumber(2)>>),
           << For("x", EArray(<<ENumber(3)>>), << Let("x", ENumber(4)) >>),
              Call("accumulate", <<"value">>, <<EVar("x", <<>>)>>, "x", Loc(6, 3)) >>),
       Return(EBare("x")) >>

\* 1 CALL listNumbers -> nums
\* 2 FOR n IN $nums: {
\* 3   FOR n IN $nums: {
\* 4     IF $n > 1 AND NOT $n == 3: {
\* 5       RETURN $n
\* 6     }
\* 7   }
\* 8 }
PlanNestedReturn ==
    << Call("listNumbers", <<>>, <<>>, "nums", Loc(1, 1)),
       For("n", EVar("nums", <<>>),
           << For("n", EVar("nums", <<>>),
                  << If(And(Cmp(">", EVar("n", <<>>), ENumber(1)),
                            Not(Cmp("==", EVar("n", <<>>), ENumber(3)))),
                        << Return(EVar("n", <<>>)) >>) >>) >>) >>

\* 1 LET a = 1
\* 2 CALL toString -> s
\* 3 CALL fetch_order id=$a -> status
\* 4 CALL toString -> t
\* 5 CALL fetch_order id=2 -> again
PlanTools ==
    << Let("a", ENumber(1)),
       Call("toString", <<>>, <<>>, "s", Loc(2, 1)),
       Call("fetch_order", <<"id">>, <<EVar("a", <<>>)>>, "status", Loc(3, 1)),
       Call("toString", <<>>, <<>>, "t", Loc(4, 1)),
       Call("fetch_order", <<"id">>, <<ENumber(2)>>, "again", Loc(5, 1)) >>

\* A plan object built by hand, with an Empty statement (the parser makes
\* none):
\* 1 LET a = 2
\*   (Empty)
\* 2 IF $a < 1 OR $b != null: {
\* 3   CALL update_order id=1
\* 4 }
\* 5 FOR y IN $a: {
\* 6   CALL accumulate value=$y
\* 7 }
\* 8 RETURN $a
PlanScalarLoop ==
    << Let("a", ENumber(2)),
       Empty,
       If(Or(Cmp("<", EVar("a", <<>>), ENumber(1)),
             Cmp("!=", EVar("b", <<>>), ENull)),
          << Call("update_order", <<"id">>, <<ENumber(1)>>, "", Loc(3, 3)) >>),
       For("y", EVar("a", <<>>),
           << Call("accumulate", <<"value">>, <<EVar("y", <<>>)>>, "", Loc(6, 3)) >>),
       Return(EVar("a", <<>>)) >>

\* 1 LET xs = [1, 2]
\* 2 FOR x IN $xs: {
\* 3   LET xs = [7, 8, 9]
\* 4   CALL accumulate value=$x -> x
\* 5 }
\* 6 RETURN $xs
PlanRebind ==
    << Let("xs", EArray(<<ENumber(1), ENumber(2)>>)),
       For("x", EVar("xs", <<>>),
           << Let("xs", EArray(<<ENumber(7), ENumber(8), ENumber(9)>>)),
              Call("accumulate", <<"value">>, <<EVar("x", <<>>)>>, "x", Loc(4, 3)) >>),
       Return(EVar("xs", <<>>)) >>

\* 1 LET a = [null, [1]]
\* 2 IF $a[1][0] == 1: {
\* 3   RETURN $a[0][0]
\* 4 }
\* 5 RETURN $b[0][1]
PlanDeepIndex ==
    << Let("a", EArray(<<ENull, EArray(<<ENumber(1)>>)>>)),
       If(Cmp("==", EVar("a", <<1, 0>>), ENumber(1)),
          << Return(EVar("a", <<0, 0>>)) >>),
       Return(EVar("b", <<0, 1>>)) >>

Plans ==
    << PlanOrder, PlanLoop, PlanEarlyReturn, PlanReturnElement, PlanShadow,
       PlanNestedReturn, PlanTools, PlanScalarLoop, PlanRebind, PlanDeepIndex >>

(***************************************************************************)
(* Parser.parseScript's static analysis of the plan it built.              *)
(***************************************************************************)
RECURSIVE Collect(_)
\* walkStmt without the else branch.
WalkStmtNoElse(s) ==
    IF s.kind = "Call" THEN << s.call >>
    ELSE IF s.kind = "If" THEN Collect(s.then)
    ELSE IF s.kind = "For" THEN Collect(s.body)
    ELSE <<>>
\* walkStmt
WalkStmt(s) ==
    IF s.kind = "Call" THEN << s.call >>
    ELSE IF s.kind = "If"
         THEN Collect(s.then) \o (IF s.hasElse THEN Collect(s.else) ELSE <<>>)
    ELSE IF s.kind = "For" THEN Collect(s.body)
    ELSE <<>>
\* collect: n.body.forEach(walkStmt)
Collect(body) ==
    IF body = <<>> THEN <<>> ELSE WalkStmt(Head(body)) \o Collect(Tail(body))

RECURSIVE Dedupe(_, _)
\* Array.from(new Set(names)): each name once, at its first occurrence.
Dedupe(names, acc) ==
    IF names = <<>> THEN acc
    ELSE Dedupe(Tail(names),
                IF \E i \in 1..Len(acc) : acc[i] = Head(names) THEN acc
                ELSE Append(acc, Head(names)))
RequiredCapabilities(invocations) ==
    Dedupe([i \in 1..Len(invocations) |-> invocations[i].name], <<>>)
\* parseScript's result for a plan.
ParseResult(body) ==
    [requiredCapabilities |-> RequiredCapabilities(Collect(body)),
     invocations |-> Collect(body)]

(***************************************************************************)
(* Capabilities.  A caller's capability is a function of the resolved      *)
(* arguments: "const" returns val, "echo" returns args.value, "throw"      *)
(* throws an Error when called, "reject" returns a promise that rejects.   *)
(* caps maps the tool names the caller supplied to their capabilities.     *)
(***************************************************************************)
MkCap(kind, val) == [kind |-> kind, val |-> val]
NoCap == MkCap("undefined", Undefined)

CapsAll ==
    ("fetch_order" :> MkCap("const", Str("pending"))) @@
    ("update_order" :> MkCap("const", Obj(<<"ok">>, <<Bool(TRUE)>>))) @@
    ("listNumbers" :> MkCap("const", Arr(<<Num(1), Num(2), Num(3)>>))) @@
    ("accumulate" :> MkCap("echo", Undefined))
CapsNone == [k \in {} |-> NoCap]
CapsFailing ==
    ("fetch_order" :> MkCap("const", Str("complete"))) @@
    ("update_order" :> MkCap("throw", Str("should not run"))) @@
    ("listNumbers" :> MkCap("const", Arr(<<Num(1), Num(2), Num(3)>>))) @@
    ("accumulate" :> MkCap("reject", Str("boom")))
\* accumulate returns nothing, listNumbers returns null, update_order is
\* not supplied.
CapsPartial ==
    ("fetch_order" :> MkCap("const", Str("pending"))) @@
    ("listNumbers" :> MkCap("const", Null)) @@
    ("accumulate" :> MkCap("const", Undefined))
CapSets == << CapsAll, CapsNone, CapsFailing, CapsPartial >>

\* caps[name]: the caller's capability, else what the map inherits.
Lookup(capabilities, name) ==
    IF name \in DOMAIN capabilities THEN capabilities[name]
    ELSE IF name \in ObjectPrototype THEN MkCap("inherited", Fn(name))
    ELSE NoCap

\* args.value
ArgValue(args) ==
    IF \E i \in 1..Len(args.ks) : args.ks[i] = "value"
    THEN args.a[CHOOSE i \in 1..Len(args.ks) : args.ks[i] = "value"]
    ELSE Undefined

\* What cap(argsObj) settles to: a value, or Thrown.  Called as a plain
\* function, Object.prototype.toString answers for an undefined receiver
\* and Object (the inherited constructor) returns its argument.
Settle(cap, args) ==
    CASE cap.kind = "const"  -> cap.val
      [] cap.kind = "echo"   -> ArgValue(args)
      [] cap.kind \in {"throw", "reject"} -> Thrown(cap.val.s)
      [] OTHER -> IF cap.val.s = "toString" THEN Str("[object Undefined]") ELSE args

(***************************************************************************)
(* Bounds of the model and the program's constant.                        *)
(***************************************************************************)
\* options.maxSteps is absent or in 1..MaxStepsOption
MaxStepsOption == 8
\* options.deadlineMs is absent or in 0..MaxDeadlineMs
MaxDeadlineMs == 1
\* the wall clock reads 0..MaxClock
MaxClock == 2
\* options.maxSteps ?? 1000
DefaultMaxSteps == 1000
\* An absent option.
Absent == -1

Execs == {1, 2}

VARIABLES
    planId,     \* the plan given to prepareToolScript, Plans[planId]
    caps,       \* the capabilities given to both executions
    analysis,   \* prepareToolScript's analysis, <<>> before it
    now,        \* Date.now()
    status,     \* per execution: "idle", "running", "awaiting", "done"
    options,    \* per execution: the options it was called with
    start,      \* per execution: start
    steps,      \* per execution: steps
    vars,       \* per execution: vars
    trace,      \* per execution: trace
    stack,      \* per execution: the runBlock calls and For loops in progress
    pending,    \* per execution: the capability call it awaits
    result,     \* per execution: the ExecutionResult, once done
    calls,      \* per execution: the capability invocations, as the caller sees them
    count,      \* per execution: blocks entered, statements and iterations reached
    forLog,     \* per execution: the For loops that finished, with the bindings around them
    returned,   \* per execution: the Return statements executed
    event,      \* per execution: what its last step did, and the state before it
    script,     \* the source text given to parseToolScript
    lexed,      \* tokenize: how far it is, the tokens pushed, the error thrown
    parsed,     \* what parseToolScript made of it, <<>> before it
    concurrent  \* the plans of two executions in flight together, and how they ended

globals == <<planId, caps, analysis, interpreter>>
locals == <<status, options, start, steps, vars, trace, stack, pending, result,
            calls, count, forLog, returned, event>>
texts == <<script, lexed, parsed>>
allvars == <<planId, caps, analysis, now, status, options, start, steps, vars, trace,
             stack, pending, result, calls, count, forLog, returned, event, script,
             lexed, parsed, concurrent, interpreter>>

Plan == Plans[planId]
EmptyEnv == [k \in {} |-> Undefined]

\* The options of an execution.
MkOptions(maxSteps, deadlineMs, dryRun) ==
    [maxSteps |-> maxSteps, deadlineMs |-> deadlineMs, dryRun |-> dryRun]
\* const maxSteps = options.maxSteps ?? 1000
MaxSteps(o) == IF o.maxSteps = Absent THEN DefaultMaxSteps ELSE o.maxSteps
\* options.deadlineMs ? start + options.deadlineMs : Infinity
HasDeadline(o) == o.deadlineMs # Absent /\ o.deadlineMs # 0
Deadline(o, st) == st + o.deadlineMs

\* checkLimits that counts against the default, whatever options.maxSteps.
CheckLimitsDefaultOnly(o, st, n, t) ==
    IF n + 1 > DefaultMaxSteps THEN "steps"
    ELSE IF HasDeadline(o) /\ t > Deadline(o, st) THEN "deadline"
    ELSE "ok"

\* checkLimits with the comparison off by one: steps >= maxSteps.
CheckLimitsOffByOne(o, st, n, t) ==
    IF n + 1 >= MaxSteps(o) THEN "steps"
    ELSE IF HasDeadline(o) /\ t > Deadline(o, st) THEN "deadline"
    ELSE "ok"

\* checkLimits, with the counter as it is before the call and the clock
\* reading t: "steps", "deadline" (what it throws) or "ok".
CheckLimits(o, st, n, t) ==
    IF n + 1 > MaxSteps(o) THEN "steps"
    ELSE IF HasDeadline(o) /\ t > Deadline(o, st) THEN "deadline"
    ELSE "ok"

\* The readings Date.now() may give next: the clock never runs backwards.
\* Without a deadline no reading is observed.
Readings(e) == IF HasDeadline(options[e]) THEN now..MaxClock ELSE {now}

(***************************************************************************)
(* Trace entries, frames, results and events, records of one shape each.   *)
(***************************************************************************)
MkEntry(kind, name, value, args, capture, index, cond) ==
    [kind |-> kind, name |-> name, value |-> value, args |-> args,
     capture |-> capture, index |-> index, cond |-> cond]
LetEntry(name, value) == MkEntry("LET", name, value, Undefined, "", 0, NoCond)
CallEntry(c, args, value) == MkEntry("CALL", c.name, value, args, c.capture, 0, NoCond)
IfEntry(cond, ok) == MkEntry("IF", "", Bool(ok), Undefined, "", 0, cond)
ForIterEntry(item, index, value) ==
    MkEntry("FOR_ITER", item, value, Undefined, "", index, NoCond)
ReturnEntry(value) == MkEntry("RETURN", "", value, Undefined, "", 0, NoCond)

\* A runBlock call (kind "block": its body, i the next statement, entered
\* once its first checkLimits passed, via how it was called, at the length
\* of the trace at the call) or a For statement in progress (kind "for":
\* idx the next index; before is vars as the loop found it).
MkFrame(kind, via, at, body, i, entered, item, collection, idx, hadPrior, prior, before) ==
    [kind |-> kind, via |-> via, at |-> at, body |-> body, i |-> i,
     entered |-> entered, item |-> item, collection |-> collection, idx |-> idx,
     hadPrior |-> hadPrior, prior |-> prior, before |-> before]
BlockFrame(body, via, at) ==
    MkFrame("block", via, at, body, 1, FALSE, "", Undefined, 0, FALSE, Undefined,
            EmptyEnv)
\* A loop that starts at the second element.
ForFrameFromOne(s, collection, env) ==
    MkFrame("for", "", 0, s.body, 0, FALSE, s.item, collection, 1,
            HasOwn(env, s.item), Get(env, s.item), env)
\* const hadPrior = hasOwnProperty.call(vars, s.item); const prior = vars[s.item]
ForFrame(s, collection, env) ==
    MkFrame("for", "", 0, s.body, 0, FALSE, s.item, collection, 0,
            HasOwn(env, s.item), Get(env, s.item), env)

\* An error message is the sequence of its parts.
StepLimitError == << "Step limit exceeded" >>
DeadlineError == << "Deadline exceeded" >>
UnknownToolError(name) == << "Unknown tool: ", name >>
ForError == << "FOR expects iterable to resolve to an array" >>
\* e instanceof Error ? e.message : String(e), of a thrown Error
ErrorMessage(thrown) == << thrown.s >>

MkResult(ok, return, error) == [ok |-> ok, return |-> return, error |-> error]
NoResult == MkResult(FALSE, Undefined, <<>>)
\* { ok: true, return: ret, vars, trace }
OkResult(ret) == MkResult(TRUE, ret, <<>>)
\* { ok: false, error, vars, trace }
ErrorResult(error) == MkResult(FALSE, Undefined, error)

MkPending(call, args, cap) == [call |-> call, args |-> args, cap |-> cap]
NoPending == MkPending(NoCall, Undefined, NoCap)

MkEvent(kind, call, val, env, traceLen, callsLen) ==
    [kind |-> kind, call |-> call, val |-> val, env |-> env, traceLen |-> traceLen,
     callsLen |-> callsLen]
\* The event of a step of execution e: the state is the one before it.
Event(e, kind, call, val) ==
    MkEvent(kind, call, val, vars[e], Len(trace[e]), Len(calls[e]))

MkCount(blocks, stmts, iters, callStmts) ==
    [blocks |-> blocks, stmts |-> stmts, iters |-> iters, callStmts |-> callStmts]

(***************************************************************************)
(* The state after construction: a plan and a capability map, nothing      *)
(* analysed or executed yet.                                               *)
(***************************************************************************)
Fresh ==
    /\ analysis = <<>>
    /\ now = 0
    /\ status = [e \in Execs |-> "idle"]
    /\ options = [e \in Execs |-> MkOptions(Absent, Absent, FALSE)]
    /\ start = [e \in Execs |-> 0]
    /\ steps = [e \in Execs |-> 0]
    /\ vars = [e \in Execs |-> EmptyEnv]
    /\ trace = [e \in Execs |-> <<>>]
    /\ stack = [e \in Execs |-> <<>>]
    /\ pending = [e \in Execs |-> NoPending]
    /\ result = [e \in Execs |-> NoResult]
    /\ calls = [e \in Execs |-> <<>>]
    /\ count = [e \in Execs |-> MkCount(0, 0, 0, 0)]
    /\ forLog = [e \in Execs |-> {}]
    /\ returned = [e \in Execs |-> <<>>]
    /\ event = [e \in Execs |-> MkEvent("none", NoCall, Undefined, EmptyEnv, 0, 0)]
\* A plan and a capability map; no source text.
Init ==
    /\ planId \in 1..Len(Plans)
    /\ caps \in {CapSets[i] : i \in 1..Len(CapSets)}
    /\ Fresh
    /\ script = <<>> /\ lexed = <<>> /\ parsed = <<>>
    /\ concurrent = <<>>
    /\ interpreter = "part_001"

\* One environment shared by the executions: a write of one is seen by all.
UpdateShared(e, st, n, env, tr, stk, pd, res, cl, ct, fl, rt, ev) ==
    /\ status' = [status EXCEPT ![e] = st]
    /\ steps' = [steps EXCEPT ![e] = n]
    /\ vars' = [x \in Execs |-> env]
    /\ trace' = [trace EXCEPT ![e] = tr]
    /\ stack' = [stack EXCEPT ![e] = stk]
    /\ pending' = [pending EXCEPT ![e] = pd]
    /\ result' = [result EXCEPT ![e] = res]
    /\ calls' = [calls EXCEPT ![e] = cl]
    /\ count' = [count EXCEPT ![e] = ct]
    /\ forLog' = [forLog EXCEPT ![e] = fl]
    /\ returned' = [returned EXCEPT ![e] = rt]
    /\ event' = [event EXCEPT ![e] = ev]
    /\ UNCHANGED <<globals, texts, concurrent, options, start>>

\* The state of execution e after a step; everything else but the clock is
\* left alone.
Update(e, st, n, env, tr, stk, pd, res, cl, ct, fl, rt, ev) ==
    /\ status' = [status EXCEPT ![e] = st]
    /\ steps' = [steps EXCEPT ![e] = n]
    /\ vars' = [vars EXCEPT ![e] = env]
    /\ trace' = [trace EXCEPT ![e] = tr]
    /\ stack' = [stack EXCEPT ![e] = stk]
    /\ pending' = [pending EXCEPT ![e] = pd]
    /\ result' = [result EXCEPT ![e] = res]
    /\ calls' = [calls EXCEPT ![e] = cl]
    /\ count' = [count EXCEPT ![e] = ct]
    /\ forLog' = [forLog EXCEPT ![e] = fl]
    /\ returned' = [returned EXCEPT ![e] = rt]
    /\ event' = [event EXCEPT ![e] = ev]
    /\ UNCHANGED <<globals, texts, concurrent, options, start>>

\* A catch that also records the error in the trace.
ThrowTraced(e, n, cl, ct, error, ev) ==
    Update(e, "done", n, vars[e],
           Append(trace[e], MkEntry("ERROR", "", Undefined, Undefined, "", 0, NoCond)),
           <<>>, NoPending, ErrorResult(error), cl, ct, forLog[e], returned[e], ev)

\* The top-level catch of executeToolScript: the execution ends with the
\* error, vars and trace as they are.
Throw(e, n, cl, ct, error, ev) ==
    Update(e, "done", n, vars[e], trace[e], <<>>, NoPending, ErrorResult(error), cl,
           ct, forLog[e], returned[e], ev)

Top(e) == stack[e][Len(stack[e])]
Pop(stk) == SubSeq(stk, 1, Len(stk) - 1)
\* The stack with the top block's next statement taken.
Taken(stk) == [stk EXCEPT ![Len(stk)].i = @ + 1]
Stmt(e) == Top(e).body[Top(e).i]
\* Execution e is about to take statement s of kind k from its block.
AtStmt(e, k) ==
    /\ status[e] = "running"
    /\ stack[e] # <<>>
    /\ Top(e).kind = "block" /\ Top(e).entered
    /\ Top(e).i <= Len(Top(e).body)
    /\ Stmt(e).kind = k
\* checkLimits passes with the clock reading t.  (The statement loop reads
\* the clock a second time right after checkLimits and throws the same
\* error; t is that second reading.)
Passes(e, t) ==
    /\ t \in Readings(e)
    /\ CheckLimits(options[e], start[e], steps[e], t) = "ok"

Stmts(ct) == [ct EXCEPT !.stmts = @ + 1]
CallStmts(ct) == [ct EXCEPT !.stmts = @ + 1, !.callStmts = @ + 1]

\* A loop that always deletes its variable on the way out.
RestoreDeletes(env, f) == Delete(env, f.item)

\* if (!hadPrior) delete vars[s.item]; else vars[s.item] = prior
Restore(env, f) == IF ~f.hadPrior THEN Delete(env, f.item) ELSE Bind(env, f.item, f.prior)
\* A finished For loop: vars as the loop found it, as its last iteration
\* left it (at) and as the loop leaves it (after).
ForDone(f, env, how) ==
    [item |-> f.item, before |-> f.before, at |-> env, after |-> Restore(env, f),
     how |-> how]

RECURSIVE Unwind(_, _, _)
\* A value other than undefined returned from the top block: each caller
\* returns it in turn, a For statement after restoring its loop variable.
\* The environment and the loops finished on the way.
Unwind(stk, env, log) ==
    IF stk = <<>> THEN [env |-> env, log |-> log]
    ELSE LET f == stk[Len(stk)]
         IN  IF f.kind = "for"
             THEN Unwind(Pop(stk), Restore(env, f),
                         log \cup {ForDone(f, env, "return")})
             ELSE Unwind(Pop(stk), env, log)

\* prepareToolScript: inspectToolScript(script)
Prepare ==
    /\ analysis = <<>>
    /\ analysis' = << ParseResult(Plan) >>
    /\ UNCHANGED <<planId, caps, interpreter, now, locals, texts, concurrent>>

\* The options execute is called with: the first execution with none but
\* dryRun, the second with the same dryRun.
OptionsOf(e) ==
    IF e = 1 THEN {MkOptions(Absent, Absent, d) : d \in BOOLEAN}
    ELSE {MkOptions(m, d, options[1].dryRun) :
            m \in {Absent} \cup 1..MaxStepsOption, d \in {Absent} \cup 0..MaxDeadlineMs}

\* prepared.execute(capabilities, options): executeToolScript up to its
\* call of runBlock(plan).
Execute(e) ==
    /\ analysis # <<>>
    /\ status[e] = "idle"
    /\ e = 1 \/ status[1] = "done"
    /\ \E o \in OptionsOf(e) :
        /\ options' = [options EXCEPT ![e] = o]
        /\ start' = [start EXCEPT ![e] = now]
        /\ status' = [status EXCEPT ![e] = "running"]
        /\ stack' = [stack EXCEPT ![e] = << BlockFrame(Plan, "script", 0) >>]
        /\ event' = [event EXCEPT ![e] = Event(e, "execute", NoCall, Undefined)]
    /\ UNCHANGED <<globals, texts, concurrent, now, steps, vars, trace, pending, result, calls,
                   count, forLog, returned>>

\* runBlock: the checkLimits on entry.
EnterBlock(e) ==
    /\ status[e] = "running" /\ stack[e] # <<>>
    /\ Top(e).kind = "block" /\ ~Top(e).entered
    /\ \E t \in Readings(e) :
        /\ Passes(e, t)
        /\ now' = t
        /\ Update(e, "running", steps[e] + 1, vars[e], trace[e],
                  [stack[e] EXCEPT ![Len(stack[e])].entered = TRUE], NoPending,
                  result[e], calls[e], [count[e] EXCEPT !.blocks = @ + 1], forLog[e],
                  returned[e], Event(e, "enter", NoCall, Undefined))

\* The count after a checkLimits at the place execution e is at.
Reached(e) ==
    IF Top(e).kind = "for" THEN [count[e] EXCEPT !.iters = @ + 1]
    ELSE IF ~Top(e).entered THEN [count[e] EXCEPT !.blocks = @ + 1]
    ELSE Stmts(count[e])

\* A frame at a call of checkLimits.
AtCheck(f) ==
    IF f.kind = "block" THEN ~f.entered \/ f.i <= Len(f.body)
    ELSE f.idx < Len(f.collection.a)

\* checkLimits throws: on entry to a block, before a statement or before a
\* loop iteration.
LimitAbort(e) ==
    /\ status[e] = "running" /\ stack[e] # <<>>
    /\ AtCheck(Top(e))
    /\ \E t \in Readings(e) :
        LET thrown == CheckLimits(options[e], start[e], steps[e], t)
        IN  /\ thrown # "ok"
            /\ now' = t
            /\ Throw(e, steps[e] + 1, calls[e], Reached(e),
                     IF thrown = "steps" THEN StepLimitError ELSE DeadlineError,
                     Event(e, "limit", NoCall, Undefined))

\* case "Empty": continue
ExecEmpty(e) ==
    /\ AtStmt(e, "Empty")
    /\ \E t \in Readings(e) :
        /\ Passes(e, t)
        /\ now' = t
        /\ Update(e, "running", steps[e] + 1, vars[e], trace[e], Taken(stack[e]),
                  NoPending, result[e], calls[e], Stmts(count[e]), forLog[e],
                  returned[e], Event(e, "empty", NoCall, Undefined))

\* case "Let"
ExecLet(e) ==
    /\ AtStmt(e, "Let")
    /\ \E t \in Readings(e) :
        LET s == Stmt(e)
            val == ResolveValue(vars[e], s.expr)
        IN  /\ Passes(e, t)
            /\ now' = t
            /\ IF IsThrown(val)
               THEN Throw(e, steps[e] + 1, calls[e], Stmts(count[e]), ErrorMessage(val),
                          Event(e, "throw", NoCall, Undefined))
               ELSE Update(e, "running", steps[e] + 1, Bind(vars[e], s.name, val),
                           Append(trace[e], LetEntry(s.name, val)), Taken(stack[e]),
                           NoPending, result[e], calls[e], Stmts(count[e]), forLog[e],
                           returned[e], Event(e, "let", NoCall, val))

\* A capture that is never bound.
CaptureLost(env, c, res) == env

\* A capture bound only to a result that is not null.
CaptureTruthy(env, c, res) ==
    IF c.capture # "" /\ ~IsNullish(res) THEN Bind(env, c.capture, res) ELSE env

\* if (s.call.capture) vars[s.call.capture] = result
Capture(env, c, res) == IF c.capture # "" THEN Bind(env, c.capture, res) ELSE env

\* case "Call", up to the await of the capability's result (all of it in a
\* dry run).
ExecCall(e) ==
    /\ AtStmt(e, "Call")
    /\ \E t \in Readings(e) :
        LET c == Stmt(e).call
            cap == Lookup(caps, c.name)
            argsObj == ResolveEntries(vars[e], c.keys, c.args, Obj(<<>>, <<>>))
            invoked == Append(calls[e], [name |-> c.name, args |-> argsObj])
        IN  /\ Passes(e, t)
            /\ now' = t
            /\ IF cap.kind = "undefined"
               THEN Throw(e, steps[e] + 1, calls[e], CallStmts(count[e]),
                          UnknownToolError(c.name), Event(e, "unknown", c, Undefined))
               ELSE IF IsThrown(argsObj)
               THEN Throw(e, steps[e] + 1, calls[e], CallStmts(count[e]),
                          ErrorMessage(argsObj), Event(e, "throw", c, Undefined))
               ELSE IF options[e].dryRun
               THEN Update(e, "running", steps[e] + 1, Capture(vars[e], c, Null),
                           Append(trace[e], CallEntry(c, argsObj, Null)),
                           Taken(stack[e]), NoPending, result[e], calls[e],
                           CallStmts(count[e]), forLog[e], returned[e],
                           Event(e, "called", c, Null))
               ELSE IF cap.kind = "throw"
               THEN Throw(e, steps[e] + 1, invoked, CallStmts(count[e]),
                          ErrorMessage(Settle(cap, argsObj)),
                          Event(e, "failed", c, Undefined))
               ELSE Update(e, "awaiting", steps[e] + 1, vars[e], trace[e],
                           Taken(stack[e]), MkPending(c, argsObj, cap), result[e],
                           invoked, CallStmts(count[e]), forLog[e], returned[e],
                           Event(e, "invoked", c, Undefined))

\* A rejection answered by calling the capability once more before giving up.
RejectedRetried(e, c, res) ==
    Throw(e, steps[e], Append(calls[e], [name |-> c.name, args |-> pending[e].args]),
          count[e], ErrorMessage(res), Event(e, "rejected", c, Undefined))

\* The awaited promise rejects: the await throws, nothing catches it
\* before executeToolScript does.
Rejected(e, c, res) ==
    Throw(e, steps[e], calls[e], count[e], ErrorMessage(res),
          Event(e, "rejected", c, Undefined))

\* The awaited capability settles, at some later reading of the clock: the
\* rest of case "Call", or the rejection thrown.
CapSettle(e) ==
    /\ status[e] = "awaiting"
    /\ \E t \in Readings(e) :
        LET c == pending[e].call
            res == Settle(pending[e].cap, pending[e].args)
        IN  /\ now' = t
            /\ IF IsThrown(res)
               THEN Rejected(e, c, res)
               ELSE Update(e, "running", steps[e], Capture(vars[e], c, res),
                           Append(trace[e], CallEntry(c, pending[e].args, res)),
                           stack[e], NoPending, result[e], calls[e], count[e],
                           forLog[e], returned[e], Event(e, "settled", c, res))

\* The branches the wrong way round.
BranchSwapped(s, ok, at) ==
    IF ~ok THEN BlockFrame(s.then, "then", at)
    ELSE BlockFrame(IF s.hasElse THEN s.else ELSE <<>>, "else", at)

\* ok ? s.then : s.else ?? { kind: "Block", body: [] }
Branch(s, ok, at) ==
    IF ok THEN BlockFrame(s.then, "then", at)
    ELSE BlockFrame(IF s.hasElse THEN s.else ELSE <<>>, "else", at)

\* case "If", up to its call of runBlock.
ExecIf(e) ==
    /\ AtStmt(e, "If")
    /\ \E t \in Readings(e) :
        LET s == Stmt(e)
            ok == EvalCond(vars[e], s.cond)
        IN  /\ Passes(e, t)
            /\ now' = t
            /\ IF ok = "throw"
               THEN Throw(e, steps[e] + 1, calls[e], Stmts(count[e]),
                          << "TypeError" >>, Event(e, "throw", NoCall, Undefined))
               ELSE Update(e, "running", steps[e] + 1, vars[e],
                           Append(trace[e], IfEntry(s.cond, ok = "true")),
                           Append(Taken(stack[e]), Branch(s, ok = "true", Len(trace[e]) + 1)),
                           NoPending, result[e], calls[e], Stmts(count[e]), forLog[e],
                           returned[e], Event(e, "if", NoCall, Bool(ok = "true")))

\* case "For", up to its loop.  The switch of interpreter.ts has no such
\* case: the statement is passed over.
ExecFor(e) ==
    /\ AtStmt(e, "For")
    /\ \E t \in Readings(e) :
        LET s == Stmt(e)
            collection == ResolveValue(vars[e], s.expr)
        IN  /\ Passes(e, t)
            /\ now' = t
            /\ IF interpreter = "interpreter.ts"
               THEN Update(e, "running", steps[e] + 1, vars[e], trace[e],
                           Taken(stack[e]), NoPending, result[e], calls[e],
                           Stmts(count[e]), forLog[e], returned[e],
                           Event(e, "passed", NoCall, Undefined))
               ELSE IF IsThrown(collection) \/ collection.t # "array"
               THEN Throw(e, steps[e] + 1, calls[e], Stmts(count[e]),
                          IF IsThrown(collection) THEN ErrorMessage(collection)
                          ELSE ForError,
                          Event(e, "throw", NoCall, collection))
               ELSE Update(e, "running", steps[e] + 1, vars[e], trace[e],
                           Append(Taken(stack[e]), ForFrame(s, collection, vars[e])),
                           NoPending, result[e], calls[e], Stmts(count[e]), forLog[e],
                           returned[e], Event(e, "for", NoCall, collection))

\* One turn of the For loop, up to its call of runBlock(s.body).
ForIter(e) ==
    /\ status[e] = "running" /\ stack[e] # <<>>
    /\ Top(e).kind = "for" /\ Top(e).idx < Len(Top(e).collection.a)
    /\ \E t \in Readings(e) :
        LET f == Top(e)
            value == f.collection.a[f.idx + 1]
        IN  /\ Passes(e, t)
            /\ now' = t
            /\ Update(e, "running", steps[e] + 1, Bind(vars[e], f.item, value),
                      Append(trace[e], ForIterEntry(f.item, f.idx, value)),
                      Append([stack[e] EXCEPT ![Len(stack[e])].idx = @ + 1],
                             BlockFrame(f.body, "for", Len(trace[e]) + 1)),
                      NoPending, result[e], calls[e],
                      [count[e] EXCEPT !.iters = @ + 1], forLog[e], returned[e],
                      Event(e, "iter", NoCall, value))

\* The For loop is through its array: the loop variable is restored.
ForExit(e) ==
    /\ status[e] = "running" /\ stack[e] # <<>>
    /\ Top(e).kind = "for" /\ Top(e).idx >= Len(Top(e).collection.a)
    /\ now' = now
    /\ Update(e, "running", steps[e], Restore(vars[e], Top(e)), trace[e],
              Pop(stack[e]), NoPending, result[e], calls[e], count[e],
              forLog[e] \cup {ForDone(Top(e), vars[e], "exhausted")},
              returned[e], Event(e, "forExit", NoCall, Undefined))

\* runBlock returns undefined to its caller: an If or a For loop goes on,
\* executeToolScript returns { ok: true, return: undefined }.
ReturnUndefined(e, n, tr, ct, rt, ev) ==
    IF Len(stack[e]) = 1
    THEN Update(e, "done", n, vars[e], tr, <<>>, NoPending, OkResult(Undefined),
                calls[e], ct, forLog[e], rt, ev)
    ELSE Update(e, "running", n, vars[e], tr, Pop(stack[e]), NoPending, result[e],
                calls[e], ct, forLog[e], rt, ev)

\* The statements of a block are through: return undefined.
BlockEnd(e) ==
    /\ status[e] = "running" /\ stack[e] # <<>>
    /\ Top(e).kind = "block" /\ Top(e).entered /\ Top(e).i > Len(Top(e).body)
    /\ now' = now
    /\ ReturnUndefined(e, steps[e], trace[e], count[e], returned[e],
                       Event(e, "blockEnd", NoCall, Undefined))

\* case "Return", and each caller's `if (ret !== undefined) return ret`.
ExecReturn(e) ==
    /\ AtStmt(e, "Return")
    /\ \E t \in Readings(e) :
        LET val == ResolveValue(vars[e], Stmt(e).expr)
            tr == Append(trace[e], ReturnEntry(val))
            rt == Append(returned[e], [val |-> val, callsLen |-> Len(calls[e]),
                                       traceLen |-> Len(tr), steps |-> steps[e] + 1])
            out == Unwind(stack[e], vars[e], forLog[e])
        IN  /\ Passes(e, t)
            /\ now' = t
            /\ IF IsThrown(val)
               THEN Throw(e, steps[e] + 1, calls[e], Stmts(count[e]), ErrorMessage(val),
                          Event(e, "throw", NoCall, Undefined))
               ELSE IF val = Undefined
               THEN ReturnUndefined(e, steps[e] + 1, tr, Stmts(count[e]), rt,
                                    Event(e, "return", NoCall, val))
               ELSE Update(e, "done", steps[e] + 1, out.env, tr, <<>>, NoPending,
                           OkResult(val), calls[e], Stmts(count[e]), out.log, rt,
                           Event(e, "return", NoCall, val))

Next ==
    \/ Prepare
    \/ \E e \in Execs :
        \/ Execute(e)
        \/ EnterBlock(e)
        \/ LimitAbort(e)
        \/ ExecEmpty(e)
        \/ ExecLet(e)
        \/ ExecCall(e)
        \/ CapSettle(e)
        \/ ExecIf(e)
        \/ ExecFor(e)
        \/ ForIter(e)
        \/ ForExit(e)
        \/ BlockEnd(e)
        \/ ExecReturn(e)

Spec == Init /\ [][Next]_allvars

\* A step of execution e once it was started.  An async function runs on
\* until it awaits, and the promise it awaits is taken to settle: every
\* execution in progress goes on.
Run(e) ==
    \/ EnterBlock(e)
    \/ LimitAbort(e)
    \/ ExecEmpty(e)
    \/ ExecLet(e)
    \/ ExecCall(e)
    \/ CapSettle(e)
    \/ ExecIf(e)
    \/ ExecFor(e)
    \/ ForIter(e)
    \/ ForExit(e)
    \/ BlockEnd(e)
    \/ ExecReturn(e)

FairSpec == Spec /\ \A e \in Execs : WF_allvars(Run(e))

\* The same, with the executeToolScript of src/toolscript/interpreter.ts.
TsInit ==
    /\ planId \in 1..Len(Plans)
    /\ caps \in {CapSets[i] : i \in 1..Len(CapSets)}
    /\ Fresh
    /\ script = <<>> /\ lexed = <<>> /\ parsed = <<>>
    /\ concurrent = <<>>
    /\ interpreter = "interpreter.ts"

TsNext ==
    \/ Prepare
    \/ \E e \in Execs :
        \/ Execute(e)
        \/ EnterBlock(e)
        \/ LimitAbort(e)
        \/ ExecEmpty(e)
        \/ ExecLet(e)
        \/ ExecCall(e)
        \/ CapSettle(e)
        \/ ExecIf(e)
        \/ ExecFor(e)
        \/ BlockEnd(e)
        \/ ExecReturn(e)

TsSpec == TsInit /\ [][TsNext]_allvars

(***************************************************************************)
(* The lexer (tokenize).  A text (the source, a token's text) is the        *)
(* sequence of its characters, each a string of length one; Text gives the *)
(* string the nodes of a plan hold.                                        *)
(***************************************************************************)
Letters ==
    {"a", "b", "c", "d", "e", "f", "g", "h", "i", "j", "k", "l", "m", "n", "o",
     "p", "q", "r", "s", "t", "u", "v", "w", "x", "y", "z",
     "A", "B", "C", "D", "E", "F", "G", "H", "I", "J", "K", "L", "M", "N", "O",
     "P", "Q", "R", "S", "T", "U", "V", "W", "X", "Y", "Z"}
Digits == <<"0", "1", "2", "3", "4", "5", "6", "7", "8", "9">>
IsDigit(c) == \E d \in 1..10 : Digits[d] = c
\* c === " " || c === "\t" || c === "\r"
IsWS(c) == c \in {" ", "\t", "\r"}
\* /[A-Za-z_]/
IsNameStart(c) == c \in Letters \cup {"_"}
\* /[A-Za-z0-9_]/
IsName(c) == IsNameStart(c) \/ IsDigit(c)
\* /[0-9_\.]/
IsNumberPart(c) == IsDigit(c) \/ c \in {"_", "."}
\* /[^\s\[\]\(\)\{\},:=><!\"\'\$]/
IsBare(c) ==
    c \notin {" ", "\t", "\r", "\n", "[", "]", "(", ")", "{", "}", ",", ":", "=",
              ">", "<", "!", "\"", "'", "$"}

\* const KEYWORDS
KEYWORDS ==
    [k \in {"LET", "CALL", "IF", "ELSE", "RETURN", "AND", "OR", "NOT", "true",
            "false", "null"} |->
        CASE k = "true" -> "TRUE" [] k = "false" -> "FALSE" [] k = "null" -> "NULL"
          [] OTHER -> k]
\* kw ? kw : "NAME", where kw = KEYWORDS[text]: a reserved word's type, else
\* what the table inherits (a function, pushed as the token's type), else
\* NAME.
Keyword(text) ==
    IF text \in DOMAIN KEYWORDS THEN KEYWORDS[text]
    ELSE IF text \in ObjectPrototype THEN "function"
    ELSE "NAME"

RECURSIVE Text(_)
\* The string of a sequence of characters.
Text(chars) == IF chars = <<>> THEN "" ELSE Head(chars) \o Text(Tail(chars))

\* A token.
Token(type, text, line, col) == [type |-> type, text |-> text, line |-> line, col |-> col]
\* input[i], zero-based as in the code; undefined past the end.
CharAt(input, i) == IF i < Len(input) THEN input[i + 1] ELSE "undefined"
Within(input, i) == i < Len(input)

\* input.slice(i, j)
Slice(input, i, j) ==
    IF j > Len(input) THEN SubSeq(input, i + 1, Len(input)) ELSE SubSeq(input, i + 1, j)
\* text.replace(/_/g, "")
StripUnderscores(text) == SelectSeq(text, LAMBDA ch : ch # "_")
RECURSIVE ScanWhile(_, _, _)
\* while (j < len && class(input[j])) j++, for the class named
ScanWhile(input, j, class) ==
    IF Within(input, j)
       /\ CASE class = "name" -> IsName(input[j + 1])
            [] class = "number" -> IsNumberPart(input[j + 1])
            [] class = "bare" -> IsBare(input[j + 1])
            [] class = "comment" -> input[j + 1] # "\n"
    THEN ScanWhile(input, j + 1, class)
    ELSE j
RECURSIVE Adv(_, _, _, _)
\* adv(n) from position i: the line and col after it
Adv(input, i, n, at) ==
    IF n = 0 THEN at
    ELSE Adv(input, i + 1, n - 1,
             IF CharAt(input, i) = "\n" THEN [line |-> at.line + 1, col |-> 1]
             ELSE [line |-> at.line, col |-> at.col + 1])
RECURSIVE ScanString(_, _, _, _)
\* The loop of a quoted string from position j: where it stops and what it
\* gathered.
ScanString(input, j, quote, out) ==
    IF ~Within(input, j) THEN [j |-> j, out |-> out]
    ELSE LET ch == input[j + 1]
         IN  IF ch = "\\"
             THEN LET nxt == CharAt(input, j + 1)
                  IN  ScanString(input, j + 2, quote,
                                 Append(out, IF quote = "\"" /\ nxt = "n" THEN "\n"
                                             ELSE IF quote = "\"" /\ nxt = "t" THEN "\t"
                                             ELSE nxt))
             ELSE IF ch = quote THEN [j |-> j + 1, out |-> out]
             ELSE ScanString(input, j + 1, quote, Append(out, ch))

Punctuation ==
    [c \in {"(", ")", "[", "]", "{", "}", ":", ","} |->
        CASE c = "(" -> "LPAREN" [] c = ")" -> "RPAREN" [] c = "[" -> "LBRACK"
          [] c = "]" -> "RBRACK" [] c = "{" -> "LBRACE" [] c = "}" -> "RBRACE"
          [] c = ":" -> "COLON" [] c = "," -> "COMMA"]

\* tokenize in progress: i, line and col (at), toks; done once EOF is
\* pushed or an error thrown.
Lexing(i, at, toks) ==
    [done |-> FALSE, ok |-> TRUE, i |-> i, at |-> at, toks |-> toks,
     error |-> Token("", "", 0, 0)]
\* let i = 0, line = 1, col = 1
LexStart == Lexing(0, [line |-> 1, col |-> 1], <<>>)
\* push("EOF", ""); return toks
Lexed(st) ==
    [st EXCEPT !.done = TRUE,
               !.toks = Append(st.toks, Token("EOF", <<>>, st.at.line, st.at.col))]
\* throw new Error(`Unexpected character '${c}' at ${line}:${col}`)
LexicalError(st, c) ==
    [st EXCEPT !.done = TRUE, !.ok = FALSE,
               !.error = Token("Unexpected character", c, st.at.line, st.at.col)]

\* tokenize: one turn of its loop, or its end.
TokenizeStep(input, st) ==
    LET i == st.i
        c == CharAt(input, i)
        two == Text(Slice(input, i, i + 2))
        Push(type, text, n) ==
            Lexing(i + n, Adv(input, i, n, st.at),
                   Append(st.toks, Token(type, text, st.at.line, st.at.col)))
        Skip(n) == Lexing(i + n, Adv(input, i, n, st.at), st.toks)
    IN  IF ~Within(input, i) THEN Lexed(st)
        ELSE IF IsWS(c) THEN Skip(1)
        ELSE IF c = "/" /\ CharAt(input, i + 1) = "/"
            THEN Skip(ScanWhile(input, i, "comment") - i)
        ELSE IF c = "\n" THEN Push("NEWLINE", <<c>>, 1)
        ELSE IF c \in DOMAIN Punctuation THEN Push(Punctuation[c], <<c>>, 1)
        ELSE IF c \in {"!", "<", ">", "="} /\ two \in {"==", "!=", "<=", ">="}
            THEN Push("CMP", Slice(input, i, i + 2), 2)
        ELSE IF c \in {"<", ">"} THEN Push("CMP", <<c>>, 1)
        ELSE IF c = "-" /\ CharAt(input, i + 1) = ">" THEN Push("ARROW", <<"-", ">">>, 2)
        ELSE IF c = "=" THEN Push("EQ", <<c>>, 1)
        ELSE IF c = "$" THEN Push("DOLLAR", <<c>>, 1)
        ELSE IF IsDigit(c) \/ (c = "-" /\ IsDigit(CharAt(input, i + 1)))
            THEN LET j == ScanWhile(input, i + 1, "number")
                 IN  Push("NUMBER", StripUnderscores(Slice(input, i, j)), j - i)
        ELSE IF c \in {"\"", "'"}
            THEN LET s == ScanString(input, i + 1, c, <<>>)
                 IN  Push(IF c = "\"" THEN "DQString" ELSE "SQString", s.out, s.j - i)
        ELSE IF IsNameStart(c)
            THEN LET j == ScanWhile(input, i + 1, "name")
                 IN  Push(Keyword(Text(Slice(input, i, j))), Slice(input, i, j), j - i)
        ELSE IF IsBare(c)
            THEN LET j == ScanWhile(input, i + 1, "bare")
                 IN  Push("BARE", Slice(input, i, j), j - i)
        ELSE LexicalError(st, c)

(***************************************************************************)
(* The parser (class Parser).  A parse function takes the tokens and the   *)
(* position i (one-based here) and returns the node it built with the      *)
(* position after it, or the error it throws.                              *)
(***************************************************************************)
NoError == Token("", "", 0, 0)
Parsed(i, val) == [ok |-> TRUE, i |-> i, val |-> val, error |-> NoError]
\* throw new Error(`${what} ... at ${t.line}:${t.col}`)
SyntaxError(what, t) ==
    [ok |-> FALSE, i |-> 0, val |-> <<>>, error |-> Token(what, t.type, t.line, t.col)]
\* this.toks[i]
Peek(toks, i) == toks[i]
\* match(type)
Match(toks, i, type) ==
    IF Peek(toks, i).type # type THEN SyntaxError("Expected " \o type, Peek(toks, i))
    ELSE Parsed(i + 1, Peek(toks, i))
RECURSIVE SkipNewlines(_, _)
\* skipNewlines(): the position after it
SkipNewlines(toks, i) ==
    IF Peek(toks, i).type = "NEWLINE" THEN SkipNewlines(toks, i + 1) ELSE i
\* expectNL(): skips the newlines there are
ExpectNL(toks, i) == Parsed(SkipNewlines(toks, i), <<>>)
\* What follows a parse that did not throw; a throw goes up as it is.
Then(res, F(_)) == IF res.ok THEN F(res) ELSE res

RECURSIVE DigitsValue(_, _)
\* The number a text of digits denotes, acc the value of those before.
DigitsValue(text, acc) ==
    IF text = <<>> THEN acc
    ELSE DigitsValue(Tail(text),
                     10 * acc + ((CHOOSE d \in 1..10 : Digits[d] = Head(text)) - 1))
\* { kind: "Number", value: Number(t.text) } of a NUMBER token: the value
\* of a text of digits with or without a minus sign; a text with a decimal
\* point is kept as it is written.
NumberLiteral(text) ==
    IF \E k \in 1..Len(text) : text[k] = "."
    THEN MkExpr("Number", 0, FALSE, Text(text), <<>>, <<>>, <<>>)
    ELSE IF Head(text) = "-" THEN ENumber(0 - DigitsValue(Tail(text), 0))
    ELSE ENumber(DigitsValue(text, 0))

RECURSIVE ParseValueOrVar(_, _)
RECURSIVE ParseItems(_, _, _)
RECURSIVE ParseEntries(_, _, _, _)
RECURSIVE ParseIndexes(_, _, _)

\* parseVarRef: the loop over [NUMBER] steps
ParseIndexes(toks, i, path) ==
    IF Peek(toks, i).type # "LBRACK" THEN Parsed(i, path)
    ELSE LET n == Match(toks, i + 1, "NUMBER")
         IN  IF ~n.ok THEN n
             ELSE LET r == Match(toks, n.i, "RBRACK")
                  IN  IF ~r.ok THEN r
                      ELSE ParseIndexes(toks, r.i, Append(path, NumberLiteral(n.val.text).n))
\* parseVarRef
ParseVarRef(toks, i) ==
    LET d == Match(toks, i, "DOLLAR")
    IN  IF ~d.ok THEN d
        ELSE LET first == Match(toks, d.i, "NAME")
             IN  IF ~first.ok THEN first
                 ELSE LET p == ParseIndexes(toks, first.i, <<>>)
                      IN  IF ~p.ok THEN p
                          ELSE Parsed(p.i, EVar(Text(first.val.text), p.val))
\* parseArray: the loop over items
ParseItems(toks, i, items) ==
    IF Peek(toks, i).type = "RBRACK" THEN Parsed(i + 1, EArray(items))
    ELSE LET v == ParseValueOrVar(toks, i)
         IN  IF ~v.ok THEN v
             ELSE ParseItems(toks,
                             IF Peek(toks, v.i).type = "COMMA" THEN v.i + 1 ELSE v.i,
                             Append(items, v.val))
\* parseMap: the loop over entries
ParseEntries(toks, i, keys, items) ==
    IF Peek(toks, i).type = "RPAREN" THEN Parsed(i + 1, EMap(keys, items))
    ELSE LET k == Match(toks, i, "NAME")
         IN  IF ~k.ok THEN k
             ELSE LET eq == Match(toks, k.i, "EQ")
                  IN  IF ~eq.ok THEN eq
                      ELSE LET v == ParseValueOrVar(toks, eq.i)
                           IN  IF ~v.ok THEN v
                               ELSE ParseEntries(toks, v.i, Append(keys, Text(k.val.text)),
                                                 Append(items, v.val))
\* parseValue
ParseValue(toks, i) ==
    LET t == Peek(toks, i)
    IN  CASE t.type = "NUMBER" -> Parsed(i + 1, NumberLiteral(t.text))
          [] t.type = "TRUE" -> Parsed(i + 1, EBool(TRUE))
          [] t.type = "FALSE" -> Parsed(i + 1, EBool(FALSE))
          [] t.type = "NULL" -> Parsed(i + 1, ENull)
          [] t.type \in {"DQString", "SQString"} -> Parsed(i + 1, EString(Text(t.text)))
          [] t.type \in {"NAME", "BARE"} -> Parsed(i + 1, EBare(Text(t.text)))
          [] t.type = "LBRACK" -> ParseItems(toks, i + 1, <<>>)
          [] t.type = "LPAREN" -> ParseEntries(toks, i + 1, <<>>, <<>>)
          [] OTHER -> SyntaxError("Expected value", t)
\* parseValueOrVar (parseExpr)
ParseValueOrVar(toks, i) ==
    IF Peek(toks, i).type = "DOLLAR" THEN ParseVarRef(toks, i) ELSE ParseValue(toks, i)

RECURSIVE ParseOr(_, _)
\* parseCmp
ParseCmp(toks, i) ==
    Then(ParseValueOrVar(toks, i), LAMBDA left :
    Then(Match(toks, left.i, "CMP"), LAMBDA opTok :
    Then(ParseValueOrVar(toks, opTok.i), LAMBDA right :
        Parsed(right.i, Cmp(Text(opTok.val.text), left.val, right.val)))))
RECURSIVE ParseNot(_, _)
\* parseNot
ParseNot(toks, i) ==
    IF Peek(toks, i).type = "NOT"
    THEN Then(ParseNot(toks, i + 1), LAMBDA inner : Parsed(inner.i, Not(inner.val)))
    ELSE IF Peek(toks, i).type = "LPAREN"
    THEN Then(ParseOr(toks, i + 1), LAMBDA c :
         Then(Match(toks, c.i, "RPAREN"), LAMBDA r : Parsed(r.i, c.val)))
    ELSE ParseCmp(toks, i)
RECURSIVE AndRest(_, _, _)
\* parseAnd: the loop over AND
AndRest(toks, i, left) ==
    IF Peek(toks, i).type # "AND" THEN Parsed(i, left)
    ELSE Then(ParseNot(toks, i + 1), LAMBDA right :
              AndRest(toks, right.i, And(left, right.val)))
\* parseAnd
ParseAnd(toks, i) ==
    Then(ParseNot(toks, i), LAMBDA left : AndRest(toks, left.i, left.val))
RECURSIVE OrRest(_, _, _)
\* parseOr: the loop over OR
OrRest(toks, i, left) ==
    IF Peek(toks, i).type # "OR" THEN Parsed(i, left)
    ELSE Then(ParseAnd(toks, i + 1), LAMBDA right :
              OrRest(toks, right.i, Or(left, right.val)))
\* parseOr (parseCond)
ParseOr(toks, i) ==
    Then(ParseAnd(toks, i), LAMBDA left : OrRest(toks, left.i, left.val))

\* parseLet
ParseLet(toks, i) ==
    Then(Match(toks, i + 1, "NAME"), LAMBDA name :
    Then(Match(toks, name.i, "EQ"), LAMBDA eq :
    Then(ParseValueOrVar(toks, eq.i), LAMBDA expr :
        Parsed(ExpectNL(toks, expr.i).i, Let(Text(name.val.text), expr.val)))))

\* args[key] = value
SetArg(args, key, val) ==
    IF \E k \in 1..Len(args.keys) : args.keys[k] = key
    THEN [args EXCEPT !.items[CHOOSE k \in 1..Len(args.keys) : args.keys[k] = key] = val]
    ELSE [keys |-> Append(args.keys, key), items |-> Append(args.items, val)]
RECURSIVE ParseArgs(_, _, _)
\* parseCall: the loop over key=value
ParseArgs(toks, i, args) ==
    IF Peek(toks, i).type # "NAME" THEN Parsed(i, args)
    ELSE Then(Match(toks, i + 1, "EQ"), LAMBDA eq :
         Then(ParseValueOrVar(toks, eq.i), LAMBDA v :
             ParseArgs(toks, v.i, SetArg(args, Text(Peek(toks, i).text), v.val))))
\* parseCall: the capture after the arguments, and expectNL
ParseCapture(toks, kw, toolTok, args) ==
    IF Peek(toks, args.i).type # "ARROW"
    THEN Parsed(ExpectNL(toks, args.i).i,
                Call(Text(toolTok.text), args.val.keys, args.val.items, "",
                     Loc(kw.line, kw.col)))
    ELSE IF Peek(toks, args.i + 1).type \notin {"NAME", "BARE"}
    THEN SyntaxError("Expected name after ->", Peek(toks, args.i + 1))
    ELSE Parsed(ExpectNL(toks, args.i + 2).i,
                Call(Text(toolTok.text), args.val.keys, args.val.items,
                     Text(Peek(toks, args.i + 1).text), Loc(kw.line, kw.col)))
\* parseCall
ParseCall(toks, i) ==
    IF Peek(toks, i + 1).type \notin {"NAME", "BARE"}
    THEN SyntaxError("Expected tool name", Peek(toks, i + 1))
    ELSE Then(ParseArgs(toks, i + 2, [keys |-> <<>>, items |-> <<>>]), LAMBDA args :
              ParseCapture(toks, Peek(toks, i), Peek(toks, i + 1), args))
\* parseReturn
ParseReturn(toks, i) ==
    Then(ParseValueOrVar(toks, i + 1), LAMBDA expr :
        Parsed(ExpectNL(toks, expr.i).i, Return(expr.val)))

RECURSIVE ParseStmt(_, _)
RECURSIVE ParseBody(_, _, _)
\* A parseBlock that meets the end of input never returns: parseStmt gives
\* it null there, again and again.
NeverReturns(t) == SyntaxError("never returns", t)
\* parseBlock: the loop up to the RBRACE, and the newlines after it
ParseBody(toks, i, body) ==
    IF Peek(toks, i).type = "RBRACE" THEN Parsed(SkipNewlines(toks, i + 1), body)
    ELSE Then(ParseStmt(toks, i), LAMBDA s :
              IF s.val = <<>> THEN NeverReturns(Peek(toks, s.i))
              ELSE ParseBody(toks, s.i, body \o s.val))
\* parseBlock
ParseBlock(toks, i) ==
    Then(Match(toks, i, "LBRACE"), LAMBDA brace : ParseBody(toks, brace.i, <<>>))
RECURSIVE SkipColons(_, _)
\* parseBlockAfterColon: while (peek is COLON) { next(); skipNewlines() }
SkipColons(toks, i) ==
    IF Peek(toks, i).type = "COLON" THEN SkipColons(toks, SkipNewlines(toks, i + 1)) ELSE i
\* parseBlockAfterColon
ParseBlockAfterColon(toks, i) ==
    Then(Match(toks, i, "COLON"), LAMBDA colon :
        ParseBlock(toks, SkipColons(toks, SkipNewlines(toks, colon.i))))
\* parseIf
ParseIf(toks, i) ==
    Then(ParseOr(toks, i + 1), LAMBDA cond :
    Then(ParseBlockAfterColon(toks, cond.i), LAMBDA then :
        IF Peek(toks, then.i).type # "ELSE"
        THEN Parsed(then.i, If(cond.val, then.val))
        ELSE Then(ParseBlockAfterColon(toks, then.i + 1), LAMBDA els :
                  Parsed(els.i, IfElse(cond.val, then.val, els.val)))))
\* parseFor
ParseFor(toks, i) ==
    Then(Match(toks, i + 1, "NAME"), LAMBDA item :
    Then(Match(toks, item.i, "IN"), LAMBDA inTok :
    Then(ParseValueOrVar(toks, inTok.i), LAMBDA iterable :
    Then(ParseBlockAfterColon(toks, iterable.i), LAMBDA body :
        Parsed(body.i, For(Text(item.val.text), iterable.val, body.val))))))
\* parseStmt: what the statement parser returned, as a sequence of one
One(s) == Parsed(s.i, << s.val >>)
\* parseStmt: the statement in a sequence of one, null the empty sequence
ParseStmt(toks, i) ==
    CASE Peek(toks, SkipNewlines(toks, i)).type = "LET" ->
             Then(ParseLet(toks, SkipNewlines(toks, i)), One)
      [] Peek(toks, SkipNewlines(toks, i)).type = "CALL" ->
             Then(ParseCall(toks, SkipNewlines(toks, i)), One)
      [] Peek(toks, SkipNewlines(toks, i)).type = "IF" ->
             Then(ParseIf(toks, SkipNewlines(toks, i)), One)
      [] Peek(toks, SkipNewlines(toks, i)).type = "FOR" ->
             Then(ParseFor(toks, SkipNewlines(toks, i)), One)
      [] Peek(toks, SkipNewlines(toks, i)).type = "RETURN" ->
             Then(ParseReturn(toks, SkipNewlines(toks, i)), One)
      [] Peek(toks, SkipNewlines(toks, i)).type = "NEWLINE" ->
             Parsed(SkipNewlines(toks, i) + 1, << Empty >>)
      [] Peek(toks, SkipNewlines(toks, i)).type = "EOF" ->
             Parsed(SkipNewlines(toks, i), <<>>)
      [] OTHER -> SyntaxError("Unexpected token", Peek(toks, SkipNewlines(toks, i)))
RECURSIVE ParseStmts(_, _, _)
\* parseScript: while (peek is not EOF) { s = parseStmt(); if (s) push }
ParseStmts(toks, i, body) ==
    IF Peek(toks, i).type = "EOF" THEN Parsed(i, body)
    ELSE Then(ParseStmt(toks, i), LAMBDA s : ParseStmts(toks, s.i, body \o s.val))

\* What parseToolScript returns or throws.
ParseToolscriptResult(plan) ==
    [ok |-> TRUE, plan |-> plan, error |-> NoError,
     requiredCapabilities |-> ParseResult(plan).requiredCapabilities,
     invocations |-> ParseResult(plan).invocations]
ParseFailure(error) ==
    [ok |-> FALSE, plan |-> <<>>, error |-> error, requiredCapabilities |-> <<>>,
     invocations |-> <<>>]
\* parseScript
ParseScript(toks) ==
    LET body == ParseStmts(toks, 1, <<>>)
    IN  IF body.ok THEN ParseToolscriptResult(body.val) ELSE ParseFailure(body.error)
(***************************************************************************)
(* The source texts of the model, put together from pieces.  A piece is a  *)
(* text with what it is meant to be parsed to.                             *)
(***************************************************************************)
Piece(text, stmts) == [text |-> text, stmts |-> stmts]

\* main_test.ts sampleScript
SampleScript ==
    <<"C", "A", "L", "L", " ", "f", "e", "t", "c", "h", "_", "o", "r", "d",
      "e", "r", " ", "i", "d", "=", "4", "2", " ", "-", ">", " ", "s", "t",
      "a", "t", "u", "s", "\n", "I", "F", " ", "$", "s", "t", "a", "t", "u",
      "s", " ", "=", "=", " ", "\"", "p", "e", "n", "d", "i", "n", "g", "\"",
      ":", " ", "{", "\n", " ", " ", "C", "A", "L", "L", " ", "u", "p", "d",
      "a", "t", "e", "_", "o", "r", "d", "e", "r", " ", "i", "d", "=", "4",
      "2", " ", "a", "m", "o", "u", "n", "t", "=", "3", "3", " ", "-", ">",
      " ", "u", "p", "d", "a", "t", "e", "d", "\n", " ", " ", "R", "E", "T",
      "U", "R", "N", " ", "$", "u", "p", "d", "a", "t", "e", "d", "\n", "}",
      "\n", "R", "E", "T", "U", "R", "N", " ", "$", "s", "t", "a", "t", "u",
      "s", "\n">>

\* nothing
TxtNothing ==
    <<>>

\* CALL fetch -> rows
TxtFetch ==
    <<"C", "A", "L", "L", " ", "f", "e", "t", "c", "h", " ", "-", ">", " ",
      "r", "o", "w", "s", "\n">>

\* LET rows = [1, 2]
TxtLetRows ==
    <<"L", "E", "T", " ", "r", "o", "w", "s", " ", "=", " ", "[", "1", ",",
      " ", "2", "]", "\n">>

\* RETURN $last
TxtReturnLast ==
    <<"R", "E", "T", "U", "R", "N", " ", "$", "l", "a", "s", "t", "\n">>

\*   CALL handle value=$row -> last
TxtHandle ==
    <<" ", " ", "C", "A", "L", "L", " ", "h", "a", "n", "d", "l", "e", " ",
      "v", "a", "l", "u", "e", "=", "$", "r", "o", "w", " ", "-", ">", " ",
      "l", "a", "s", "t", "\n">>

\* LET y = $row / RETURN $y
TxtLetReturn ==
    <<" ", " ", "L", "E", "T", " ", "y", " ", "=", " ", "$", "r", "o", "w",
      "\n", " ", " ", "R", "E", "T", "U", "R", "N", " ", "$", "y", "\n">>

\* row
TxtRow ==
    <<"r", "o", "w">>

\* x_1
TxtX1 ==
    <<"x", "_", "1">>

\* $rows
TxtVarRows ==
    <<"$", "r", "o", "w", "s">>

\* $rows[0]
TxtVarRows0 ==
    <<"$", "r", "o", "w", "s", "[", "0", "]">>

\* [1, -2]
TxtArray ==
    <<"[", "1", ",", " ", "-", "2", "]">>

\* rows
TxtBare ==
    <<"r", "o", "w", "s">>

\* FOR 
TxtFor ==
    <<"F", "O", "R", " ">>

\*  IN 
TxtIn ==
    <<" ", "I", "N", " ">>

\* : {
TxtOpen ==
    <<":", " ", "{", "\n">>

\* :: {
TxtOpenTwice ==
    <<":", ":", " ", "{", "\n">>

\* :\n{
TxtOpenNewline ==
    <<":", "\n", "{">>

\* }
TxtClose ==
    <<"}", "\n">>

\* LET a = 1
TxtLetA ==
    <<"L", "E", "T", " ", "a", " ", "=", " ", "1">>

\* LET b = "x y"
TxtLetB ==
    <<"L", "E", "T", " ", "b", " ", "=", " ", "\"", "x", " ", "y", "\"">>

\* CALL f n=2 -> r
TxtCallF ==
    <<"C", "A", "L", "L", " ", "f", " ", "n", "=", "2", " ", "-", ">", " ",
      "r">>

\* CALL g
TxtCallG ==
    <<"C", "A", "L", "L", " ", "g">>

\* RETURN $a
TxtReturnA ==
    <<"R", "E", "T", "U", "R", "N", " ", "$", "a">>

\* RETURN null
TxtReturnNull ==
    <<"R", "E", "T", "U", "R", "N", " ", "n", "u", "l", "l">>

\* a space
TxtSpace ==
    <<" ">>

\* a newline
TxtNewline ==
    <<"\n">>

\*  // comment and a newline
TxtComment ==
    <<" ", "/", "/", " ", "c", "\n">>

\* The pieces a text is put together from.
Named(text, name) == [text |-> text, name |-> name]
Valued(text, expr) == [text |-> text, expr |-> expr]
Befores == {Piece(TxtNothing, <<>>), Piece(TxtFetch, <<"Call">>), Piece(TxtLetRows, <<"Let">>)}
Names == {Named(TxtRow, "row"), Named(TxtX1, "x_1")}
Iterables ==
    {Valued(TxtVarRows, EVar("rows", <<>>)), Valued(TxtVarRows0, EVar("rows", <<0>>)),
     Valued(TxtArray, EArray(<<ENumber(1), ENumber(-2)>>)), Valued(TxtBare, EBare("rows"))}
Opens == {TxtOpen, TxtOpenTwice, TxtOpenNewline}
Bodies ==
    {Piece(TxtNothing, <<>>), Piece(TxtHandle, <<"Call">>),
     Piece(TxtLetReturn, <<"Let", "Return">>)}
Afters == {Piece(TxtNothing, <<>>), Piece(TxtReturnLast, <<"Return">>)}
Statements ==
    {Piece(TxtLetA, <<"Let">>), Piece(TxtLetB, <<"Let">>), Piece(TxtCallF, <<"Call">>),
     Piece(TxtCallG, <<"Call">>), Piece(TxtReturnA, <<"Return">>),
     Piece(TxtReturnNull, <<"Return">>)}
Separators == {TxtSpace, TxtNewline, TxtComment}

\* A script: its text, and the pieces it was put together from.
MkScript(text, form, before, item, iterable, body, after, sep) ==
    [text |-> text, form |-> form, before |-> before, item |-> item,
     iterable |-> iterable, body |-> body, after |-> after, sep |-> sep]
\* <before> FOR <name> IN <value-or-var> : { <statements> } <after>
ForScripts ==
    {MkScript(b.text \o TxtFor \o n.text \o TxtIn \o it.text \o o \o bd.text
                \o TxtClose \o a.text,
              "for", b.stmts, n.name, it.expr, bd.stmts, a.stmts, <<>>) :
        b \in Befores, n \in Names, it \in Iterables, o \in Opens, bd \in Bodies,
        a \in Afters}
\* <statement> <separator> <statement>
PairScripts ==
    {MkScript(f.text \o s \o g.text, "pair", f.stmts, "", ENull, <<>>, g.stmts, s) :
        f \in Statements, s \in Separators, g \in Statements}
Scripts ==
    ForScripts \cup PairScripts
        \cup {MkScript(SampleScript, "sample", <<>>, "", ENull, <<>>, <<>>, <<>>)}

(***************************************************************************)
(* parseToolScript(script) as two steps: tokenize, then Parser.parseScript *)
(* if tokenize did not throw.                                              *)
(***************************************************************************)
\* const toks = tokenize(script), a turn of its loop at a time; what it
\* throws, parseToolScript throws.
Tokenize ==
    /\ ~lexed.done
    /\ lexed' = TokenizeStep(script.text, lexed)
    /\ parsed' = IF lexed'.ok THEN parsed ELSE << ParseFailure(lexed'.error) >>
    /\ UNCHANGED <<script, concurrent, globals, now, locals>>
\* return new Parser(toks).parseScript()
Parse ==
    /\ lexed.done /\ lexed.ok /\ parsed = <<>>
    /\ parsed' = << ParseScript(lexed.toks) >>
    /\ UNCHANGED <<script, lexed, concurrent, globals, now, locals>>

ParseInit ==
    /\ script \in Scripts
    /\ lexed = LexStart /\ parsed = <<>>
    /\ planId = 1 /\ caps = CapsNone
    /\ concurrent = <<>> /\ interpreter = "part_001"
    /\ Fresh
ParseNext == Tokenize \/ Parse
ParseSpec == ParseInit /\ [][ParseNext]_allvars

(***************************************************************************)
(* Two calls of executeToolScript in flight together, on the same plan or  *)
(* on two plans, then the same two calls again, one after the other.  Each *)
(* call has its own vars, trace, steps and start (part_001 26-35); the     *)
(* plan is only read.                                                      *)
(***************************************************************************)
ConcPlans == {1, 2, 8}
ConcMaxSteps == 5
ConcOptions == {MkOptions(m, Absent, d) : m \in {Absent, ConcMaxSteps}, d \in BOOLEAN}
ConcCaps == {CapsAll, CapsFailing}

\* How an execution ended, as its caller sees it.
Outcome(e) == [vars |-> vars[e], trace |-> trace[e], result |-> result[e]]

\* executeToolScript(plan, caps, o) up to its call of runBlock(plan).
Started(e, plan, o) ==
    /\ options' = [options EXCEPT ![e] = o]
    /\ start' = [start EXCEPT ![e] = now]
    /\ status' = [status EXCEPT ![e] = "running"]
    /\ stack' = [stack EXCEPT ![e] = << BlockFrame(plan, "script", 0) >>]
    /\ event' = [event EXCEPT ![e] = Event(e, "execute", NoCall, Undefined)]
    /\ UNCHANGED <<globals, texts, now, steps, vars, trace, pending, result, calls,
                   count, forLog, returned>>

\* An execution starts, whatever the other one is doing.
ExecuteTogether(e) ==
    /\ concurrent.outcome = <<>>
    /\ status[e] = "idle"
    /\ \E o \in ConcOptions : Started(e, Plans[concurrent.plans[e]], o)
    /\ concurrent' =
         [concurrent EXCEPT !.midway =
             @ \/ \E x \in Execs \ {e} : status[x] = "awaiting" /\ trace[x] # <<>>]

\* Both have ended: their outcomes are kept, and the caller is about to make
\* the same two calls again.
Again ==
    /\ concurrent.outcome = <<>>
    /\ \A e \in Execs : status[e] = "done"
    /\ concurrent' = [concurrent EXCEPT !.outcome = [e \in Execs |-> Outcome(e)]]
    /\ status' = [e \in Execs |-> "idle"]
    /\ start' = [e \in Execs |-> 0]
    /\ steps' = [e \in Execs |-> 0]
    /\ vars' = [e \in Execs |-> EmptyEnv]
    /\ trace' = [e \in Execs |-> <<>>]
    /\ stack' = [e \in Execs |-> <<>>]
    /\ pending' = [e \in Execs |-> NoPending]
    /\ result' = [e \in Execs |-> NoResult]
    /\ calls' = [e \in Execs |-> <<>>]
    /\ count' = [e \in Execs |-> MkCount(0, 0, 0, 0)]
    /\ forLog' = [e \in Execs |-> {}]
    /\ returned' = [e \in Execs |-> <<>>]
    /\ event' = [e \in Execs |-> MkEvent("none", NoCall, Undefined, EmptyEnv, 0, 0)]
    /\ UNCHANGED <<globals, texts, now, options>>

\* The same call again, while no other execution is in flight.
ExecuteAlone(e) ==
    /\ concurrent.outcome # <<>>
    /\ status[e] = "idle"
    /\ \A x \in Execs \ {e} : status[x] \in {"idle", "done"}
    /\ Started(e, Plans[concurrent.plans[e]], options[e])
    /\ UNCHANGED concurrent

ConcInit ==
    /\ concurrent \in {[plans |-> <<p, q>>, midway |-> FALSE, outcome |-> <<>>] :
                         p \in ConcPlans, q \in ConcPlans}
    /\ caps \in ConcCaps
    /\ planId = 1 /\ interpreter = "part_001"
    /\ Fresh
    /\ script = <<>> /\ lexed = <<>> /\ parsed = <<>>

ConcNext ==
    \/ Again
    \/ \E e \in Execs :
        \/ ExecuteTogether(e)
        \/ ExecuteAlone(e)
        \/ EnterBlock(e)
        \/ LimitAbort(e)
        \/ ExecEmpty(e)
        \/ ExecLet(e)
        \/ ExecCall(e)
        \/ CapSettle(e)
        \/ ExecIf(e)
        \/ ExecFor(e)
        \/ ForIter(e)
        \/ ForExit(e)
        \/ BlockEnd(e)
        \/ ExecReturn(e)

ConcSpec == ConcInit /\ [][ConcNext]_allvars

(***************************************************************************)
(* Properties.                                                             *)
(***************************************************************************)
IsPrefix(a, b) == Len(a) <= Len(b) /\ SubSeq(b, 1, Len(a)) = a
Last(q) == q[Len(q)]
Done(e) == status[e] = "done"

\* C1: once a Return statement has executed, at any nesting and whatever its
\* value, the execution is over: nothing was recorded, invoked or counted
\* after it, its RETURN entry is the last entry of the trace and the result
\* is ok with that value.
C1_ReturnEndsExecution ==
    \A e \in Execs :
        returned[e] # <<>> =>
            LET r == returned[e][1]
            IN  /\ Done(e)
                /\ result[e] = OkResult(r.val)
                /\ Len(trace[e]) = r.traceLen
                /\ Last(trace[e]).kind = "RETURN"
                /\ Len(calls[e]) = r.callsLen
                /\ steps[e] = r.steps

\* The steps the first execution took: with the default budget and no
\* deadline, what the plan needs.
Needed == steps[1]
\* The second execution was not cut short by its deadline.
NoDeadlineAbort == Done(2) /\ result[2].error # DeadlineError

\* C2 (as amended): the step counter advances by one on entry to every
\* block (the script, the chosen branch of an If, the body at each For
\* iteration), by one at every statement and by one at every For iteration;
\* an execution of a plan that needs k such steps ends with the step-limit
\* error exactly when maxSteps < k, unless its deadline ends it.
C2_StepsCountBlocksToo ==
    /\ \A e \in Execs : steps[e] = count[e].blocks + count[e].stmts + count[e].iters
    /\ NoDeadlineAbort =>
        (result[2].error = StepLimitError <=> MaxSteps(options[2]) < Needed)

\* C2, witness: a budget that covers every statement and iteration of the
\* plan, one short of what the plan needs, and the step-limit error.
C2_Witness ==
    /\ Done(2) /\ result[2].error = StepLimitError
    /\ MaxSteps(options[2]) = Needed - 1
    /\ MaxSteps(options[2]) >= count[1].stmts + count[1].iters
    /\ count[1].iters > 0

\* C2 (as claimed): an execution of a plan whose statements executed and
\* For iterations total k ends with the step-limit error exactly when
\* maxSteps < k.
C2_StepsCountStatementsAndIterations ==
    NoDeadlineAbort =>
        (result[2].error = StepLimitError
            <=> MaxSteps(options[2]) < count[1].stmts + count[1].iters)

\* C3: an execution given fewer steps than the plan needs ends with ok=false
\* and the step-limit error (unless its deadline ends it first), and the
\* trace of an execution that ends with the step-limit error is a prefix of
\* the trace of the execution with the default budget.
C3_StepLimitKeepsTracePrefix ==
    /\ NoDeadlineAbort /\ MaxSteps(options[2]) < Needed =>
        result[2] = ErrorResult(StepLimitError)
    /\ Done(2) /\ result[2].error = StepLimitError =>
        /\ ~result[2].ok
        /\ IsPrefix(trace[2], trace[1])

\* C3, witness: the step limit ends a For loop between two iterations.
C3_Witness ==
    /\ Done(2) /\ result[2].error = StepLimitError
    /\ event[2].kind = "limit"
    /\ trace[2] # <<>> /\ Last(trace[2]).kind \in {"CALL", "LET"}
    /\ \E i \in 1..Len(trace[2]) : trace[2][i].kind = "FOR_ITER"
    /\ Len(trace[1]) > Len(trace[2])
    /\ trace[1][Len(trace[2]) + 1].kind = "FOR_ITER"

\* C4: when a For loop is over, by the end of its array or by a Return in
\* its body, its loop variable is bound as it was when the loop began:
\* absent if it was absent, to the same value if it was bound; the other
\* variables are as the body left them, and the environment the loop
\* leaves is the environment of the execution.
C4_LoopVariableRestored ==
    \A e \in Execs :
        /\ \A d \in forLog[e] :
            /\ HasOwn(d.after, d.item) = HasOwn(d.before, d.item)
            /\ HasOwn(d.before, d.item) => d.after[d.item] = d.before[d.item]
            /\ \A k \in DOMAIN d.at : k # d.item =>
                    HasOwn(d.after, k) /\ d.after[k] = d.at[k]
        /\ event[e].kind = "forExit" =>
            \E d \in forLog[e] :
                d.how = "exhausted" /\ d.at = event[e].env /\ d.after = vars[e]
        /\ event[e].kind = "return" /\ Done(e)
                /\ (\E d \in forLog[e] : d.how = "return") =>
            \E d \in forLog[e] : d.how = "return" /\ d.after = vars[e]

\* C4, witness: a loop ended by a Return, whose variable was bound before
\* the loop, was rebound by a Call capture in the body and held an element
\* of the array when the Return executed.
C4_Witness ==
    \E d \in forLog[1] :
        /\ d.how = "return" /\ HasOwn(d.before, d.item)
        /\ d.before[d.item] = Num(9) /\ d.at[d.item] = Num(2)
        /\ \E i \in 1..Len(trace[1]) :
            trace[1][i].kind = "CALL" /\ trace[1][i].capture = d.item

\* C5: a Call of a tool the capability map does not hold ends the
\* execution with ok=false and an error that names the tool; nothing is
\* invoked, bound or recorded for it.
C5_UnknownToolFails ==
    \A e \in Execs :
        event[e].call.name # "" /\ event[e].call.name \notin DOMAIN caps =>
            /\ Done(e)
            /\ ~result[e].ok
            /\ \E i \in 1..Len(result[e].error) : result[e].error[i] = event[e].call.name
            /\ Len(calls[e]) = event[e].callsLen
            /\ Len(trace[e]) = event[e].traceLen
            /\ vars[e] = event[e].env

\* What C6 says of every state: a failed capability call ends the
\* execution with ok=false and an error, binds and records nothing, and no
\* Call statement invokes its capability twice.
C6_FailureEnds ==
    \A e \in Execs :
        /\ event[e].kind \in {"failed", "rejected"} =>
            /\ Done(e)
            /\ ~result[e].ok /\ result[e].error # <<>>
            /\ vars[e] = event[e].env
            /\ Len(trace[e]) = event[e].traceLen
        /\ Len(calls[e]) <= count[e].callStmts
\* What C6 says of every step: an execution that is done does nothing more.
C6_DoneIsFinal ==
    \A e \in Execs :
        Done(e) =>
            /\ status'[e] = status[e] /\ result'[e] = result[e]
            /\ vars'[e] = vars[e] /\ trace'[e] = trace[e]
            /\ calls'[e] = calls[e] /\ steps'[e] = steps[e]

CallEntries(tr) == Cardinality({i \in 1..Len(tr) : tr[i].kind = "CALL"})
\* The last step of e was a Call statement that neither failed its tool
\* lookup nor threw.
JustCalled(e) == event[e].kind = "called"
\* The CALL entry and the capture of a Call statement just executed in a
\* dry run.
DryCallRecorded(e) ==
    /\ Len(trace[e]) = event[e].traceLen + 1
    /\ Last(trace[e]).kind = "CALL" /\ Last(trace[e]).name = event[e].call.name
    /\ Last(trace[e]).value = Null
    /\ event[e].call.capture # "" =>
        /\ HasOwn(vars[e], event[e].call.capture)
        /\ vars[e][event[e].call.capture] = Null
\* The last step of e was a Call statement that threw: an unknown tool, or
\* an argument that could not be resolved.
CallThrew(e) == event[e].call.name # "" /\ event[e].kind \in {"unknown", "throw"}

\* C7 (as amended): in a dry run no capability is invoked; every Call
\* statement executed whose tool is found records one CALL entry with
\* result null and binds its capture to null, while a Call of a tool that
\* is not found still ends the run with the unknown-tool error and records
\* nothing; and two dry runs of a plan that no limit cuts short end with
\* the same vars, trace and result.
C7_DryRunInvokesNothing ==
    /\ \A e \in Execs :
        options[e].dryRun /\ status[e] # "idle" =>
            /\ calls[e] = <<>> /\ status[e] # "awaiting"
            /\ \A i \in 1..Len(trace[e]) :
                trace[e][i].kind = "CALL" => trace[e][i].value = Null
            /\ event[e].call.name # "" => JustCalled(e) \/ CallThrew(e)
            /\ JustCalled(e) => DryCallRecorded(e)
            /\ event[e].kind = "unknown" =>
                /\ event[e].call.name \notin DOMAIN caps
                /\ Done(e) /\ result[e] = ErrorResult(UnknownToolError(event[e].call.name))
                /\ Len(trace[e]) = event[e].traceLen /\ vars[e] = event[e].env
            /\ CallEntries(trace[e]) =
                    count[e].callStmts - (IF CallThrew(e) THEN 1 ELSE 0)
    /\ options[1].dryRun /\ Done(1) /\ Done(2)
            /\ result[2].error \notin {StepLimitError, DeadlineError} =>
        /\ vars[2] = vars[1] /\ trace[2] = trace[1] /\ result[2] = result[1]

\* C7, witness: the second dry run executed a Call, with a capture, of a
\* capability that throws when invoked.
C7_Witness ==
    /\ options[2].dryRun /\ JustCalled(2)
    /\ event[2].call.capture # ""
    /\ event[2].call.name \in DOMAIN caps
    /\ caps[event[2].call.name].kind = "throw"
    /\ event[2].traceLen > 0

\* C7 (as claimed): in a dry run no capability is invoked and every Call
\* statement executed records one CALL entry with result null and binds
\* its capture to null.
C7_EveryDryCallRecorded ==
    \A e \in Execs :
        options[e].dryRun /\ status[e] # "idle" =>
            /\ calls[e] = <<>>
            /\ event[e].call.name # "" => DryCallRecorded(e)
            /\ CallEntries(trace[e]) = count[e].callStmts

\* The steps that start a statement or a loop iteration, enter a block or
\* invoke a capability.
Starts == {"enter", "empty", "let", "called", "invoked", "failed", "unknown",
           "throw", "if", "for", "iter", "return"}

\* C8: with a deadline, nothing starts once the clock is past it (no
\* statement, no loop iteration, no capability invocation), and an
\* execution during which the clock passed the deadline does not end with
\* ok=true.
C8_DeadlineEnforced ==
    \A e \in Execs :
        HasDeadline(options[e]) /\ status[e] # "idle" =>
            /\ event[e].kind \in Starts => now <= Deadline(options[e], start[e])
            /\ Done(e) /\ result[e].ok => now <= Deadline(options[e], start[e])

\* The If statement whose branch is block k of the stack of e.
IfOf(e, k) == stack[e][k - 1].body[stack[e][k - 1].i - 1]

\* C9: an If statement records one IF entry with a boolean and calls one
\* block, the then-block if the entry says true and else the else-block
\* (an empty block if there is none), changing nothing else; every branch
\* in progress is the one its IF entry chose.
C9_IfRunsOneBranch ==
    \A e \in Execs :
        /\ event[e].kind = "if" =>
            /\ Len(trace[e]) = event[e].traceLen + 1
            /\ Last(trace[e]).kind = "IF" /\ Last(trace[e]).value.t = "boolean"
            /\ Len(stack[e]) >= 2
            /\ Top(e).kind = "block" /\ Top(e).via \in {"then", "else"}
            /\ Top(e).at = Len(trace[e]) /\ ~Top(e).entered /\ Top(e).i = 1
            /\ vars[e] = event[e].env /\ Len(calls[e]) = event[e].callsLen
        /\ \A k \in 2..Len(stack[e]) :
            stack[e][k].kind = "block" /\ stack[e][k].via # "for" =>
                LET s == IfOf(e, k)
                    en == trace[e][stack[e][k].at]
                IN  /\ s.kind = "If" /\ en.kind = "IF" /\ en.cond = s.cond
                    /\ stack[e][k].via = (IF en.value.b THEN "then" ELSE "else")
                    /\ stack[e][k].body =
                        (IF en.value.b THEN s.then
                         ELSE IF s.hasElse THEN s.else ELSE <<>>)
        /\ planId = 1 /\ ~options[e].dryRun /\ "fetch_order" \in DOMAIN caps =>
            /\ (\E i \in 1..Len(calls[e]) : calls[e][i].name = "update_order") =>
                    caps["fetch_order"].val = Str("pending")
            /\ Done(e) /\ result[e].ok /\ caps["fetch_order"].val = Str("complete") =>
                    result[e] = OkResult(Str("complete"))

\* C9, witness: a statement of an else-block taken, inside a loop, after an
\* IF entry that says false.
C9_Witness ==
    \E k \in 2..Len(stack[1]) :
        /\ stack[1][k].kind = "block" /\ stack[1][k].via = "else"
        /\ stack[1][k].i > 1
        /\ trace[1][stack[1][k].at].value = Bool(FALSE)
        /\ IfOf(1, k).hasElse

RECURSIVE AllStmts(_)
\* Every statement of a block, at any depth.
AllStmts(body) ==
    UNION {{body[i]} \cup AllStmts(body[i].then) \cup AllStmts(body[i].else)
            \cup AllStmts(body[i].body) : i \in 1..Len(body)}
\* The Call nodes of the plan.
CallNodes == {s.call : s \in {x \in AllStmts(Plan) : x.kind = "Call"}}
\* Document order.
LocBefore(a, b) == a.line < b.line \/ (a.line = b.line /\ a.col < b.col)
\* The place in q of the first call of tool name.
FirstCall(q, name) ==
    CHOOSE k \in 1..Len(q) : q[k].name = name /\ \A m \in 1..(k - 1) : q[m].name # name

Kinds(stmts) == [k \in 1..Len(stmts) |-> stmts[k].kind]
\* res is the plan of script sc, a For loop between the statements before
\* and after it.
ParsedAsFor(sc, res) ==
    /\ res.ok
    /\ Kinds(res.plan) = sc.before \o << "For" >> \o sc.after
    /\ LET loop == res.plan[Len(sc.before) + 1]
       IN  /\ loop.item = sc.item
           /\ loop.expr = sc.iterable
           /\ Kinds(loop.body) = sc.body

\* C11: a text `FOR <name> IN <value-or-var> : { <statements> }`, alone or
\* between other statements, is tokenized and parsed without error into one
\* For statement with that item, that iterable and those statements as its
\* body; the statements around it stay top-level statements of their own.
C11_ForLoopParses ==
    script.form = "for" =>
        /\ lexed.ok
        /\ parsed # <<>> => ParsedAsFor(script, parsed[1])

\* While the two calls are in flight together or made again, a step that
\* changes the vars or the trace of one execution leaves the other's alone.
OwnStateOnly ==
    concurrent'.outcome = concurrent.outcome =>
        \A e \in Execs :
            vars'[e] # vars[e] \/ trace'[e] # trace[e] =>
                \A x \in Execs \ {e} : vars'[x] = vars[x] /\ trace'[x] = trace[x]

\* An execution made again alone ended as it did when in flight with the other.
AloneAsTogether ==
    \A e \in Execs :
        concurrent.outcome # <<>> /\ Done(e) => Outcome(e) = concurrent.outcome[e]

\* C12: two executions interleaved at their suspension points, on one plan or
\* on two, never write each other's vars or trace, and each one's vars, trace
\* and result equal those of the same execution run alone.
C12_ExecutionsAreIsolated == []AloneAsTogether /\ [][OwnStateOnly]_allvars

C12_Witness ==
    /\ concurrent.outcome # <<>>
    /\ concurrent.midway
    /\ concurrent.plans[1] # concurrent.plans[2]
    /\ \A e \in Execs :
        /\ Done(e)
        /\ result[e].ok
        /\ Len(calls[e]) >= 2
        /\ vars[e] # EmptyEnv

\* The execution awaits a capability: one call is pending, every earlier
\* invocation has its CALL entry, and vars and trace are as they were when
\* the call was made.
OneCallInFlight ==
    \A e \in Execs :
        /\ status[e] = "awaiting" <=> pending[e] # NoPending
        /\ status[e] = "awaiting" =>
            /\ event[e].kind = "invoked" /\ event[e].call = pending[e].call
            /\ Len(calls[e]) = CallEntries(trace[e]) + 1
            /\ vars[e] = event[e].env
            /\ Len(trace[e]) = event[e].traceLen
        /\ status[e] # "awaiting" /\ ~Done(e) =>
            Len(calls[e]) = IF options[e].dryRun THEN 0 ELSE CallEntries(trace[e])

\* A step taken while execution e awaits: either e is still awaiting and
\* nothing of it changed, or the result was delivered, and then the capture
\* is bound and the CALL entry pushed with no step counted in between, or
\* the rejection ended the execution.
DeliveryBeforeNextStatement ==
    \A e \in Execs :
        status[e] = "awaiting" /\ concurrent'.outcome = concurrent.outcome =>
            LET c == pending[e].call
            IN  \/ /\ status'[e] = "awaiting"
                   /\ vars'[e] = vars[e] /\ trace'[e] = trace[e]
                   /\ steps'[e] = steps[e] /\ pending'[e] = pending[e]
                \/ /\ status'[e] = "running"
                   /\ event'[e].kind = "settled"
                   /\ Len(trace'[e]) = Len(trace[e]) + 1
                   /\ SubSeq(trace'[e], 1, Len(trace[e])) = trace[e]
                   /\ Last(trace'[e]).kind = "CALL"
                   /\ Last(trace'[e]).name = c.name
                   /\ Last(trace'[e]).value = event'[e].val
                   /\ c.capture # "" =>
                        /\ HasOwn(vars'[e], c.capture)
                        /\ Get(vars'[e], c.capture) = event'[e].val
                   /\ \A k \in DOMAIN vars[e] \ {c.capture} :
                        HasOwn(vars'[e], k) /\ Get(vars'[e], k) = Get(vars[e], k)
                   /\ steps'[e] = steps[e] /\ count'[e] = count[e]
                   /\ stack'[e] = stack[e]
                \/ /\ status'[e] = "done"
                   /\ event'[e].kind = "rejected"
                   /\ vars'[e] = vars[e] /\ trace'[e] = trace[e]
                   /\ steps'[e] = steps[e]

\* C13: an execution has at most one capability call in flight; between the
\* invocation and the delivery of its result it changes no variable and
\* appends no trace entry; and the capture and the CALL entry are both in
\* place before any later statement or loop iteration is considered.
C13_OneCallAtATime == []OneCallInFlight /\ [][DeliveryBeforeNextStatement]_allvars

C13_Witness ==
    \E e \in Execs :
        /\ concurrent.outcome = <<>>
        /\ event[e].kind = "settled" /\ status[e] = "running"
        /\ event[e].call.capture # ""
        /\ Len(calls[e]) >= 2
        /\ \E x \in Execs \ {e} : status[x] = "awaiting" /\ trace[x] # <<>>

\* The For statements of the plan, and the FOR_ITER entries of a trace.
ForStmts == {s \in AllStmts(Plan) : s.kind = "For"}
ForIters(tr) == SelectSeq(tr, LAMBDA en : en.kind = "FOR_ITER")

\* Every loop in progress holds the array it began with; the body in
\* progress is the one of element idx - 1, announced by its FOR_ITER entry.
LoopsInOrder ==
    \A e \in Execs : \A j \in 1..Len(stack[e]) :
        LET f == stack[e][j]
        IN  f.kind = "for" =>
                /\ f.collection.t = "array"
                /\ f.idx \in 0..Len(f.collection.a)
                /\ j < Len(stack[e]) =>
                    LET b == stack[e][j + 1]
                    IN  /\ b.kind = "block" /\ b.via = "for" /\ f.idx >= 1
                        /\ trace[e][b.at].kind = "FOR_ITER"
                        /\ trace[e][b.at].name = f.item
                        /\ trace[e][b.at].index = f.idx - 1
                        /\ trace[e][b.at].value = f.collection.a[f.idx]

\* A For statement resolves its iterable at its start, and fails on what is
\* no array; an iteration binds the next element and pushes its entry,
\* whatever the body did to the variables; the loop ends after the last.
LoopStep ==
    \A e \in Execs :
        /\ (/\ AtStmt(e, "For") /\ steps'[e] = steps[e] + 1
            /\ CheckLimits(options[e], start[e], steps[e], now') = "ok") =>
            LET col == ResolveValue(vars[e], Stmt(e).expr)
                g == stack'[e][Len(stack'[e])]
            IN  IF IsThrown(col) \/ col.t # "array"
                THEN status'[e] = "done" /\ ~result'[e].ok
                ELSE /\ status'[e] = "running" /\ Len(stack'[e]) = Len(stack[e]) + 1
                     /\ g.kind = "for" /\ g.collection = col /\ g.idx = 0
        /\ event'[e] # event[e] /\ event'[e].kind = "for" =>
            /\ event'[e].val = ResolveValue(vars[e], Stmt(e).expr)
            /\ stack'[e][Len(stack'[e])].collection = event'[e].val
            /\ stack'[e][Len(stack'[e])].idx = 0
            /\ trace'[e] = trace[e] /\ vars'[e] = vars[e]
        /\ (/\ event'[e] # event[e] /\ event'[e].kind = "throw"
            /\ AtStmt(e, "For")
            /\ ~IsThrown(ResolveValue(vars[e], Stmt(e).expr))) =>
            /\ ResolveValue(vars[e], Stmt(e).expr).t # "array"
            /\ status'[e] = "done" /\ result'[e] = ErrorResult(ForError)
            /\ trace'[e] = trace[e] /\ vars'[e] = vars[e]
        /\ event'[e] # event[e] /\ event'[e].kind = "iter" =>
            LET f == Top(e)
                g == stack'[e][Len(stack[e])]
            IN  /\ g.idx = f.idx + 1 /\ g.collection = f.collection
                /\ Get(vars'[e], f.item) = f.collection.a[f.idx + 1]
                /\ Len(trace'[e]) = Len(trace[e]) + 1
                /\ Last(trace'[e]).kind = "FOR_ITER"
                /\ Last(trace'[e]).index = f.idx
                /\ Last(trace'[e]).value = f.collection.a[f.idx + 1]
                /\ stack'[e][Len(stack'[e])].body = f.body
        /\ event'[e] # event[e] /\ event'[e].kind = "forExit" =>
            Top(e).idx = Len(Top(e).collection.a)
        /\ \A j \in 1..Len(stack[e]) :
            j < Len(stack[e]) /\ j <= Len(stack'[e]) /\ stack[e][j].kind = "for" =>
                stack'[e][j] = stack[e][j]

\* In a plan with one For statement, a loop that ended with its array left
\* one FOR_ITER entry per element of the array as it was when the loop
\* began, with indexes 0..n-1 in order.
OneEntryPerElement ==
    \A e \in Execs :
        \A s \in ForStmts : \A d \in forLog[e] :
            Cardinality(ForStmts) = 1 /\ d.how = "exhausted" =>
                LET col == ResolveValue(d.before, s.expr)
                    its == ForIters(trace[e])
                IN  /\ Len(its) = Len(col.a)
                    /\ \A i \in 1..Len(its) :
                        /\ its[i].name = s.item
                        /\ its[i].index = i - 1
                        /\ its[i].value = col.a[i]

\* C14: a For statement resolves its iterable once, before the first
\* iteration, and fails if it is no array; else, with no Return, error or
\* limit abort in between, the body runs once per element, in index order,
\* with the loop variable bound to the element and one FOR_ITER entry per
\* iteration, indexes 0..n-1, whatever the body rebinds.
C14_ForIteratesTheArray ==
    /\ [](LoopsInOrder /\ OneEntryPerElement)
    /\ [][LoopStep]_allvars

\* C14, witness: the loop of PlanRebind is over; its body rebound the
\* iterable's variable to a longer array and the loop variable to a
\* capability's result in each of its two iterations.
C14_Witness ==
    /\ Plan = PlanRebind
    /\ \E d \in forLog[1] :
        /\ d.how = "exhausted"
        /\ Len(d.at["xs"].a) = 3 /\ Len(d.before["xs"].a) = 2
        /\ d.at["x"] # Num(2)
    /\ Len(ForIters(trace[1])) = 2
    /\ CallEntries(trace[1]) = 2

\* A bare word by the priority of the claim: the variable of that name, else
\* the number it reads as, else the word.
BareByPriority(env, text) ==
    IF HasOwn(env, text) THEN env[text]
    ELSE IF text \in NumericText THEN Num(NumberOf(text))
    ELSE Str(text)

\* A Let or a Return of a bare word binds or returns what the priority says.
BareStep ==
    \A e \in Execs :
        (/\ event'[e] # event[e] /\ event'[e].kind \in {"let", "return"}
         /\ status[e] = "running" /\ Stmt(e).expr.kind = "Bare") =>
            event'[e].val = BareByPriority(vars[e], Stmt(e).expr.s)

\* C15: a Bare value resolves to the current value of the variable of that
\* exact name if the environment binds one, else to a number if the text
\* parses as one, else to the text as a string; so a bare word naming a
\* Let-bound or captured variable yields the variable's value, not the word.
C15_BareResolvesVariableFirst == [][BareStep]_allvars

RECURSIVE CmpsOf(_)
\* The comparisons of a condition.
CmpsOf(c) ==
    IF c.kind = "Cmp" THEN {c}
    ELSE UNION {CmpsOf(c.sub[i]) : i \in 1..Len(c.sub)}

\* A comparison with a null operand, as the claim has it.
NullCmpAsClaimed(env, c) ==
    LET l == ResolveValue(env, c.left)
        r == ResolveValue(env, c.right)
        both == l.t = "null" /\ r.t = "null"
        yes == EvalCond(env, c) = "true"
    IN  l.t = "null" \/ r.t = "null" =>
            CASE c.op = "==" -> yes <=> both
              [] c.op = "!=" -> yes <=> ~both
              [] OTHER       -> ~both => ~yes

\* C16: a comparison with at least one null operand: == is true exactly if
\* both are null, != is true exactly if not both are null, and <, <=, > and
\* >= are false if exactly one is null.
C16_NullComparisons ==
    \A e \in Execs :
        AtStmt(e, "If") =>
            \A c \in CmpsOf(Stmt(e).cond) :
                EvalCond(vars[e], c) # "throw" => NullCmpAsClaimed(vars[e], c)

\* A Let or a Return of a variable reference does not end the execution
\* with an error, and binds or returns null if the variable is unbound.
VarStep ==
    \A e \in Execs :
        (/\ status[e] = "running" /\ stack[e] # <<>>
         /\ AtStmt(e, "Let") \/ AtStmt(e, "Return")
         /\ Stmt(e).expr.kind = "Var"
         /\ steps'[e] = steps[e] + 1
         /\ CheckLimits(options[e], start[e], steps[e], now') = "ok") =>
            /\ status'[e] = "done" => result'[e].ok
            /\ ~HasOwn(vars[e], Stmt(e).expr.s) =>
                /\ Len(trace'[e]) = Len(trace[e]) + 1
                /\ Last(trace'[e]).value = Null

\* C17: resolving a variable reference never fails the execution: it
\* yields null if the variable is unbound, and an index step on a null
\* intermediate value, at any place of the chain, yields null.
C17_VarRefNeverFails == [][VarStep]_allvars

\* A statement begins right after a token that ends a Let, a Call or a
\* Return, with no NEWLINE in between.
Crowded(toks) ==
    \E k \in 2..Len(toks) :
        /\ toks[k].type \in {"LET", "CALL", "IF", "RETURN"}
        /\ toks[k - 1].type \notin {"NEWLINE", "LBRACE", "RBRACE"}

\* C18: a Let, a Call or a Return ends with a NEWLINE or the end of the
\* input: tokens in which another statement follows on the same line are
\* rejected with a syntax error, not parsed as two statements.
C18_StatementsEndWithNewline ==
    parsed # <<>> /\ lexed.ok /\ Crowded(lexed.toks) => ~parsed[1].ok

\* The invocations and the trace entries of an execution are within its
\* step budget, and within the steps it has passed.
WithinBudget ==
    \A e \in Execs :
        /\ Len(calls[e]) <= MaxSteps(options[e])
        /\ Len(trace[e]) <= MaxSteps(options[e])
        /\ Len(calls[e]) <= steps[e] /\ Len(trace[e]) <= steps[e]

\* A step that invokes a capability or records an entry is the delivery of
\* an awaited result, or it counted a step that passed the check.
CheckedBeforeEffect ==
    \A e \in Execs :
        Len(calls'[e]) > Len(calls[e]) \/ Len(trace'[e]) > Len(trace[e]) =>
            \/ status[e] = "awaiting"
            \/ /\ steps'[e] = steps[e] + 1
               /\ steps'[e] <= MaxSteps(options[e])

\* C19: at every moment the capability invocations made and the trace
\* entries recorded are each at most maxSteps, every statement and every
\* loop iteration passing the step check before it has an effect; and every
\* execution whose capability calls all settle terminates.
C19_BoundedAndTerminates ==
    /\ []WithinBudget
    /\ [][CheckedBeforeEffect]_allvars
    /\ \A e \in Execs : (status[e] \in {"running", "awaiting"}) ~> Done(e)

\* C19, witness: an execution stopped by the step limit in its second loop
\* iteration, after two capability calls.
C19_Witness ==
    /\ Done(2) /\ result[2] = ErrorResult(StepLimitError)
    /\ options[2].maxSteps # Absent
    /\ steps[2] = options[2].maxSteps + 1
    /\ Len(trace[2]) >= 4 /\ Len(trace[2]) < options[2].maxSteps
    /\ Len(calls[2]) >= 2
    /\ \E i \in 1..Len(trace[2]) : trace[2][i].kind = "FOR_ITER"

=============================================================================
